---- MODULE Spec2Model ----
(***************************************************************************)
(* Verification model of the f1_analytics feature pipeline: the feature    *)
(* normaliser, the safety-car lap detector, the lap filter, the four       *)
(* feature extractors with their teammate pairing, the points normaliser,  *)
(* the final qualifying session of the Verstappen analysis and the         *)
(* pipeline driver.  Every component but the driver is a batch             *)
(* function over tables; a table is a sequence of records in row order, a  *)
(* missing value (NaN / None) is an explicit marker.  Each component has   *)
(* its own specification, whose Init draws the component's inputs and      *)
(* whose actions run its functions.                                        *)
(***************************************************************************)
EXTENDS Integers, Sequences, FiniteSets, TLC

VARIABLES
    norm_pc,      \* FeatureNormalizer: "ready" before the call, "done" after
    norm_in,      \* arguments of robust_normalize
    norm_out,     \* the Series robust_normalize returned
    sc_pc,        \* safety-car detector: "ready" before the call, "done" after
    sc_laps,      \* df_laps, the lap table handed to _identify_sc_laps
    sc_out,       \* df_out, the table _identify_sc_laps returned
    tm_pc,        \* add_colunas_companheiro_equipe: "ready" / "done"
    tm_dados,     \* df_dados, its input table
    tm_stats,     \* df_stats_companheiro, the one-teammate-per-driver table it builds
    tm_final,     \* df_final, the table it returns
    perf_pc,      \* PerformanceFeatureExtractor: "ready" / "done"
    perf_none,    \* raw_data has no race_results: self.df_results is None
    perf_results, \* self.df_results, <<>> while it is None
    perf_merged,  \* race_merged, the head-to-head table execute builds
    perf_out,     \* the table execute returned
    pace_pc,      \* PaceFeatureExtractor: "ready" / "done"
    pace_in,      \* raw_data: lap_times and qualify_results
    pace_laps,    \* self.df_laps
    pace_qualify, \* self.df_qualify
    pace_counts,  \* self.stint_counts, <<>> while it is None
    pace_stats,   \* driver_race_stats of the race path
    pace_race,    \* driver_with_teammate of the race path
    pace_quali,   \* df_final of the qualifying path
    pace_out,     \* the table execute returned
    pn_pc,        \* PointsNormalizer: "ready" / "done"
    pn_map,       \* self.scoring_map
    pn_target,    \* self.target_rounds
    pn_call,      \* the method called and its arguments
    pn_out,       \* the value it returned
    ril_pc,       \* remove_invalid_laps: "ready" / "done"
    ril_in,       \* its lap table, the columns the table has, and the four toggles
    ril_out,      \* the table it returned, or the column its error names
    pipe_pc,      \* run_pipeline: the step it is at, "returned" or "done"
    pipe_in,      \* what DbReader, the queries and each execute() do in this run
    pipe_df,      \* df_pace, df_perf, df_rel once assigned
    pipe_files,   \* the files written, with their row counts
    pipe_error,   \* an exception left run_pipeline
    fx_pc,        \* Reliability / Experience extractor: "ready" / "done"
    fx_class,     \* the class of the extractor
    fx_none,      \* raw_data has no race_results: self.df_results is None
    fx_results,   \* self.df_results, <<>> while it is None
    fx_out,       \* the table execute returned
    fq_pc,        \* get_final_quali_session: "ready" / "done"
    fq_in,        \* df_quali_all, its input table
    fq_out        \* the table it returned

normVars == <<norm_pc, norm_in, norm_out>>
scVars == <<sc_pc, sc_laps, sc_out>>
tmVars == <<tm_pc, tm_dados, tm_stats, tm_final>>
perfVars == <<perf_pc, perf_none, perf_results, perf_merged, perf_out>>

paceVars == <<pace_pc, pace_in, pace_laps, pace_qualify, pace_counts,
              pace_stats, pace_race, pace_quali, pace_out>>

pnVars == <<pn_pc, pn_map, pn_target, pn_call, pn_out>>

rilVars == <<ril_pc, ril_in, ril_out>>

pipeVars == <<pipe_pc, pipe_in, pipe_df, pipe_files, pipe_error>>

fxVars == <<fx_pc, fx_class, fx_none, fx_results, fx_out>>

fqVars == <<fq_pc, fq_in, fq_out>>

vars == <<norm_pc, norm_in, norm_out, sc_pc, sc_laps, sc_out,
          tm_pc, tm_dados, tm_stats, tm_final,
          perf_pc, perf_none, perf_results, perf_merged, perf_out,
          pace_pc, pace_in, pace_laps, pace_qualify, pace_counts,
          pace_stats, pace_race, pace_quali, pace_out,
          pn_pc, pn_map, pn_target, pn_call, pn_out,
          ril_pc, ril_in, ril_out,
          pipe_pc, pipe_in, pipe_df, pipe_files, pipe_error,
          fx_pc, fx_class, fx_none, fx_results, fx_out,
          fq_pc, fq_in, fq_out>>

(***************************************************************************)
(* Bounds of the model.                                                    *)
(***************************************************************************)
MaxLen == 4        \* longest input series of the normaliser
MaxVal == 2        \* series values are 0..MaxVal
MaxRows == 3       \* most rows of an enumerated lap table
MaxDados == 3      \* most rows of df_dados
MaxEntries == 3    \* most race entries of a season
MaxStarts == 2     \* most race entries of an enumerated season of lap times
MaxPos == 12       \* positions passed to calculate_points are -1..MaxPos
MaxLapRows == 2    \* most rows of an enumerated lap table of remove_invalid_laps
MaxQualiRows == 3  \* most rows of an enumerated table of get_final_quali_session
MaxSeries == 2     \* most elements of a Series passed to apply_scoring_pandas

(***************************************************************************)
(* Generic helpers.                                                        *)
(***************************************************************************)
Abs(n) == IF n < 0 THEN -n ELSE n

RECURSIVE Gcd(_, _)
Gcd(a, b) == IF b = 0 THEN a ELSE Gcd(b, a % b)

RECURSIVE SumSeq(_)
SumSeq(s) == IF s = <<>> THEN 0 ELSE Head(s) + SumSeq(Tail(s))

RECURSIVE SeqsUpTo(_, _)
SeqsUpTo(S, n) ==
    IF n = 0 THEN {<<>>}
    ELSE LET shorter == SeqsUpTo(S, n - 1)
         IN  shorter \cup {Append(s, x) : s \in {t \in shorter : Len(t) = n - 1}, x \in S}

(***************************************************************************)
(* Floating point values, modelled exactly.  A value is NaN or the real    *)
(* number (p + q * sqrt(T)) / r with integers p, q, r, r > 0, where the    *)
(* radicand T >= 0 is fixed per call (it is the radicand of the series'    *)
(* standard deviation, the only square root the normaliser takes).         *)
(* Rounding of the binary representation is not modelled.                  *)
(***************************************************************************)
NaN == [nan |-> TRUE, p |-> 0, q |-> 0, r |-> 1]

FNorm(p, q, r) ==
    LET s == IF r < 0 THEN -1 ELSE 1
        g == Gcd(Gcd(Abs(p), Abs(q)), Abs(r))
    IN  [nan |-> FALSE, p |-> (s * p) \div g, q |-> (s * q) \div g, r |-> (s * r) \div g]

FInt(n) == [nan |-> FALSE, p |-> n, q |-> 0, r |-> 1]

FRat(n, d) == FNorm(n, 0, d)

FNeg(a) == IF a.nan THEN NaN ELSE [a EXCEPT !.p = -a.p, !.q = -a.q]

FAdd(a, b) ==
    IF a.nan \/ b.nan THEN NaN
    ELSE FNorm(a.p * b.r + b.p * a.r, a.q * b.r + b.q * a.r, a.r * b.r)

FSub(a, b) == FAdd(a, FNeg(b))

FMul(a, b, T) ==
    IF a.nan \/ b.nan THEN NaN
    ELSE FNorm(a.p * b.p + a.q * b.q * T, a.p * b.q + a.q * b.p, a.r * b.r)

\* sign of p + q * sqrt(T)
FSign(a, T) ==
    LET p == a.p
        q == IF T = 0 THEN 0 ELSE a.q
        p2 == p * p
        q2T == q * q * T
    IN  IF p >= 0 /\ q >= 0 THEN (IF p = 0 /\ q = 0 THEN 0 ELSE 1)
        ELSE IF p <= 0 /\ q <= 0 THEN -1
        ELSE IF p > 0 THEN (IF p2 > q2T THEN 1 ELSE IF p2 = q2T THEN 0 ELSE -1)
        ELSE (IF q2T > p2 THEN 1 ELSE IF p2 = q2T THEN 0 ELSE -1)

\* a / b; a division by zero yields NaN (0/0) or an infinity, which no
\* caller below produces: every divisor is tested against zero first.
FDiv(a, b, T) ==
    IF a.nan \/ b.nan THEN NaN
    ELSE IF FSign(b, T) = 0 THEN NaN
    ELSE LET den == b.p * b.p - b.q * b.q * T
             inv == IF den = 0 THEN FNorm(b.r, 0, 2 * b.p)   \* p = q * sqrt(T)
                    ELSE FNorm(b.r * b.p, -(b.r * b.q), den)
         IN  FMul(a, inv, T)

FEq(a, b, T) == ~a.nan /\ ~b.nan /\ FSign(FSub(a, b), T) = 0
FLt(a, b, T) == ~a.nan /\ ~b.nan /\ FSign(FSub(a, b), T) < 0
FLe(a, b, T) == ~a.nan /\ ~b.nan /\ FSign(FSub(a, b), T) <= 0

(***************************************************************************)
(* FeatureNormalizer (analysis/utils/feature_normalizer.py).  A Series is  *)
(* a sequence of values.                                                   *)
(***************************************************************************)
NoClip == [set |-> FALSE, k |-> 0]

\* clip_outliers_sigma: None, or k/4: -0.25, 0, 0.25, 0.5 and the docstring's 3.0
ClipSettings == {NoClip} \cup {[set |-> TRUE, k |-> k] : k \in {-1, 0, 1, 2, 12}}

\* target_range (lo, hi) with lo <= hi: the default, a 0-100 scale, an empty and a
\* negative-based range
TargetRanges == {<<0, 1>>, <<0, 100>>, <<-1, -1>>, <<-1, 2>>}

NormInputs ==
    [series : SeqsUpTo(0 .. MaxVal, MaxLen), target_range : TargetRanges,
     clip_outliers_sigma : ClipSettings, lower_is_better : BOOLEAN]

\* series.mean()
SeriesMean(xs) == FRat(SumSeq(xs), Len(xs))

\* (n - 1) * sum((n * x - sum(xs))^2): the radicand of series.std() over n * (n - 1)
StdRadicand(xs) ==
    LET n == Len(xs)
        tot == SumSeq(xs)
    IN  (n - 1) * SumSeq([i \in 1 .. n |-> (n * xs[i] - tot) * (n * xs[i] - tot)])

\* series.std(): the sample standard deviation (ddof = 1), NaN for one element
SeriesStd(xs) ==
    LET n == Len(xs)
    IN  IF n < 2 THEN NaN ELSE [nan |-> FALSE, p |-> 0, q |-> 1, r |-> n * (n - 1)]

\* series.min() / series.max(): NaN entries are skipped, NaN when none is left
RECURSIVE SeriesMin(_, _)
SeriesMin(fs, T) ==
    IF fs = <<>> THEN NaN
    ELSE LET rest == SeriesMin(Tail(fs), T)
             x == Head(fs)
         IN  IF x.nan THEN rest
             ELSE IF rest.nan THEN x
             ELSE IF FLe(x, rest, T) THEN x ELSE rest

RECURSIVE SeriesMax(_, _)
SeriesMax(fs, T) ==
    IF fs = <<>> THEN NaN
    ELSE LET rest == SeriesMax(Tail(fs), T)
             x == Head(fs)
         IN  IF x.nan THEN rest
             ELSE IF rest.nan THEN x
             ELSE IF FLe(rest, x, T) THEN x ELSE rest

z_score(xs, T) ==
    IF xs = <<>> THEN <<>>
    ELSE LET mean == SeriesMean(xs)
             std == SeriesStd(xs)
         IN  IF FEq(std, FInt(0), T)
             THEN [i \in 1 .. Len(xs) |-> FInt(0)]
             ELSE [i \in 1 .. Len(xs) |-> FDiv(FSub(FInt(xs[i]), mean), std, T)]

min_max(fs, target_range, T) ==
    IF fs = <<>> THEN <<>>
    ELSE LET series_min == SeriesMin(fs, T)
             series_max == SeriesMax(fs, T)
             target_min == FInt(target_range[1])
             target_max == FInt(target_range[2])
         IN  IF FEq(series_max, series_min, T)
             THEN [i \in 1 .. Len(fs) |-> target_min]
             ELSE [i \in 1 .. Len(fs) |->
                      FAdd(FMul(FDiv(FSub(fs[i], series_min),
                                     FSub(series_max, series_min), T),
                                FSub(target_max, target_min), T),
                           target_min)]

\* Series.clip(lower, upper): pandas swaps the two scalars when lower > upper,
\* NaN entries stay NaN
SeriesClip(fs, lower, upper, T) ==
    LET lo == IF FLe(lower, upper, T) THEN lower ELSE upper
        hi == IF FLe(lower, upper, T) THEN upper ELSE lower
    IN  [i \in 1 .. Len(fs) |->
            IF fs[i].nan THEN NaN
            ELSE IF FLt(fs[i], lo, T) THEN lo
            ELSE IF FLt(hi, fs[i], T) THEN hi
            ELSE fs[i]]

\* robust_normalize without the inversion of step 0
robust_normalize_no_inversion(series, target_range, clip_outliers_sigma, lower_is_better) ==
    IF series = <<>> THEN <<>>
    ELSE LET T == StdRadicand(series)
             z_scored == z_score(series, T)
             sigma == FRat(clip_outliers_sigma.k, 4)
             data_to_scale ==
                 IF clip_outliers_sigma.set
                 THEN SeriesClip(z_scored, FNeg(sigma), sigma, T)
                 ELSE z_scored
         IN  min_max(data_to_scale, target_range, T)

robust_normalize(series, target_range, clip_outliers_sigma, lower_is_better) ==
    IF series = <<>> THEN <<>>
    ELSE LET working_series ==
                 IF lower_is_better THEN [i \in 1 .. Len(series) |-> -series[i]]
                 ELSE series
             T == StdRadicand(working_series)
             z_scored == z_score(working_series, T)
             sigma == FRat(clip_outliers_sigma.k, 4)
             data_to_scale ==
                 IF clip_outliers_sigma.set
                 THEN SeriesClip(z_scored, FNeg(sigma), sigma, T)
                 ELSE z_scored
         IN  min_max(data_to_scale, target_range, T)

NormIdle == norm_pc = "idle" /\ norm_in = <<>> /\ norm_out = <<>>

ScIdle == sc_pc = "idle" /\ sc_laps = <<>> /\ sc_out = <<>>

TmIdle == tm_pc = "idle" /\ tm_dados = <<>> /\ tm_stats = <<>> /\ tm_final = <<>>

PerfIdle ==
    /\ perf_pc = "idle" /\ perf_none = FALSE
    /\ perf_results = <<>> /\ perf_merged = <<>> /\ perf_out = <<>>

NoTables == [lap_times |-> <<>>, qualify_results |-> <<>>, absent |-> {}]

PaceIdle ==
    /\ pace_pc = "idle" /\ pace_in = NoTables
    /\ pace_laps = <<>> /\ pace_qualify = <<>> /\ pace_counts = <<>>
    /\ pace_stats = <<>> /\ pace_race = <<>> /\ pace_quali = <<>> /\ pace_out = <<>>

PnIdle ==
    pn_pc = "idle" /\ pn_map = <<>> /\ pn_target = 0 /\ pn_call = <<>> /\ pn_out = NaN

RilIdle ==
    ril_pc = "idle" /\ ril_in = <<>> /\ ril_out = <<>>

PipeIdle ==
    pipe_pc = "idle" /\ pipe_in = <<>> /\ pipe_df = <<>> /\ pipe_files = {} /\ pipe_error = FALSE

FxIdle ==
    /\ fx_pc = "idle" /\ fx_class = "" /\ fx_none = FALSE
    /\ fx_results = <<>> /\ fx_out = <<>>

FqIdle ==
    fq_pc = "idle" /\ fq_in = <<>> /\ fq_out = <<>>

NormInit ==
    /\ norm_pc = "ready" /\ norm_in \in NormInputs /\ norm_out = <<>>
    /\ ScIdle /\ TmIdle /\ PerfIdle /\ PaceIdle /\ PnIdle /\ RilIdle /\ PipeIdle /\ FxIdle /\ FqIdle

RobustNormalize ==
    /\ norm_pc = "ready"
    /\ norm_out' = robust_normalize(norm_in.series, norm_in.target_range,
                                     norm_in.clip_outliers_sigma, norm_in.lower_is_better)
    /\ norm_pc' = "done"
    /\ UNCHANGED <<norm_in, scVars, tmVars, perfVars, paceVars, pnVars, rilVars, pipeVars, fxVars, fqVars>>

NormNext == RobustNormalize

SpecNorm == NormInit /\ [][NormNext]_vars

\* the radicand under which the values of norm_out are read
NormT ==
    StdRadicand(norm_in.series)

InRange(v) ==
    /\ ~v.nan
    /\ FLe(FInt(norm_in.target_range[1]), v, NormT)
    /\ FLe(v, FInt(norm_in.target_range[2]), NormT)

\* C1: after robust_normalize on a non-empty series every output value is a
\* number (not NaN) within target_range, bounds included.
C1_OutputInRange ==
    (norm_pc = "done" /\ Len(norm_in.series) >= 1)
        => \A i \in 1 .. Len(norm_out) : InRange(norm_out[i])

\* The same for series of at least two elements (the case the code handles).
C1_OutputInRange_Len2 ==
    (norm_pc = "done" /\ Len(norm_in.series) >= 2)
        => /\ Len(norm_out) = Len(norm_in.series)
           /\ \A i \in 1 .. Len(norm_out) : InRange(norm_out[i])

Monotonic(xs, out, lower_is_better) ==
    \A i, j \in 1 .. Len(xs) :
        (i # j /\ xs[i] <= xs[j]) =>
            IF lower_is_better THEN FLe(out[j], out[i], NormT)
            ELSE FLe(out[i], out[j], NormT)

\* C2: robust_normalize is monotonic in the input ordering: for any two elements
\* i, j of the series, x[i] <= x[j] implies out[i] <= out[j] (out[i] >= out[j] when
\* lower_is_better), with and without clipping.
C2_Monotonic ==
    norm_pc = "done"
        => /\ Len(norm_out) = Len(norm_in.series)
           /\ Monotonic(norm_in.series, norm_out, norm_in.lower_is_better)

\* lower_is_better with clipping: one strict order turned into a tie by the clip,
\* another kept strict and inverted
C2_Witness ==
    /\ norm_pc = "done"
    /\ norm_in.lower_is_better
    /\ norm_in.clip_outliers_sigma.set
    /\ \E i, j \in 1 .. Len(norm_out) :
           norm_in.series[i] < norm_in.series[j] /\ FEq(norm_out[i], norm_out[j], NormT)
    /\ \E i, j \in 1 .. Len(norm_out) :
           norm_in.series[i] < norm_in.series[j] /\ FLt(norm_out[j], norm_out[i], NormT)

(***************************************************************************)
(* Safety-car lap detector (modules/features/utils.py).  A lap table is a  *)
(* sequence of rows [race, driver, lap_number, lap_time_ms, is_pit_lap,    *)
(* position_on_lap]; race stands for the group columns (year, race_name),  *)
(* driver for driver_full_name, the row's place in the sequence for the    *)
(* table's index.  NA is a missing value.                                  *)
(***************************************************************************)
NA == 0 - 999999

ThresholdNum == 6      \* threshold_percent = 1.20 = ThresholdNum / ThresholdDen
ThresholdDen == 5
Tolerance == 3         \* tolerated loss of places on the next lap

RECURSIVE Insert(_, _)
Insert(x, sorted) ==
    IF sorted = <<>> THEN <<x>>
    ELSE IF x <= Head(sorted) THEN <<x>> \o sorted
    ELSE <<Head(sorted)>> \o Insert(x, Tail(sorted))

RECURSIVE SortAsc(_)
SortAsc(xs) == IF xs = <<>> THEN <<>> ELSE Insert(Head(xs), SortAsc(Tail(xs)))

\* twice the median of a sequence of numbers (pandas 'median'), NA when empty
Median2(xs) ==
    LET srt == SortAsc(xs)
        n == Len(xs)
    IN  IF n = 0 THEN NA
        ELSE IF n % 2 = 1 THEN 2 * srt[(n + 1) \div 2]
        ELSE srt[n \div 2] + srt[n \div 2 + 1]

SetMin(S) == CHOOSE x \in S : \A y \in S : x <= y

\* the row indices S in row order
RECURSIVE InRowOrder(_)
InRowOrder(S) ==
    IF S = {} THEN <<>> ELSE <<SetMin(S)>> \o InRowOrder(S \ {SetMin(S)})

\* df_racing_laps = df_out.query("is_pit_lap == 0 and lap_number > 1")
IsRacingLap(row) == row.is_pit_lap = 0 /\ row.lap_number > 1

\* groupby(group_cols)['lap_time_ms'].transform('median') over the racing laps,
\* merged back on the index: twice the baseline of row i, NA off the racing laps
baseline_pace2(df, i) ==
    IF ~IsRacingLap(df[i]) THEN NA
    ELSE LET idx == InRowOrder({j \in 1 .. Len(df) :
                                    /\ IsRacingLap(df[j])
                                    /\ df[j].race = df[i].race
                                    /\ df[j].lap_time_ms # NA})
         IN  Median2([k \in 1 .. Len(idx) |-> df[idx[k]].lap_time_ms])

\* groupby(group_cols + ['driver_full_name'])['position_on_lap'].shift(-1)
next_lap_position(df, i) ==
    LET later == {j \in i + 1 .. Len(df) :
                      df[j].race = df[i].race /\ df[j].driver = df[i].driver}
    IN  IF later = {} THEN NA ELSE df[SetMin(later)].position_on_lap

\* next_lap_position > position_on_lap + 3 (False on a missing next position)
lost_position(df, i) ==
    /\ next_lap_position(df, i) # NA
    /\ next_lap_position(df, i) > df[i].position_on_lap + Tolerance

\* the comparison as >= instead of >
is_slow_lap_or_equal(df, i) ==
    /\ df[i].lap_time_ms # NA
    /\ baseline_pace2(df, i) # NA
    /\ 2 * ThresholdDen * df[i].lap_time_ms >= ThresholdNum * baseline_pace2(df, i)

\* lap_time_ms > baseline_pace * threshold_percent (False on a missing side)
is_slow_lap(df, i) ==
    /\ df[i].lap_time_ms # NA
    /\ baseline_pace2(df, i) # NA
    /\ 2 * ThresholdDen * df[i].lap_time_ms > ThresholdNum * baseline_pace2(df, i)

is_sc_lap(df, i) == is_slow_lap(df, i) /\ ~lost_position(df, i)

\* assign(_is_sc_lap).groupby(group_cols)['_is_sc_lap'].shift(-1).fillna(False)
is_lap_before_sc(df, i) ==
    LET later == {j \in i + 1 .. Len(df) : df[j].race = df[i].race}
    IN  IF later = {} THEN FALSE ELSE is_sc_lap(df, SetMin(later))

_identify_sc_laps(df_laps) ==
    [i \in 1 .. Len(df_laps) |->
        [race |-> df_laps[i].race, driver |-> df_laps[i].driver,
         lap_number |-> df_laps[i].lap_number, lap_time_ms |-> df_laps[i].lap_time_ms,
         is_pit_lap |-> df_laps[i].is_pit_lap,
         position_on_lap |-> df_laps[i].position_on_lap,
         is_safety_car_lap |-> is_sc_lap(df_laps, i) \/ is_lap_before_sc(df_laps, i)]]

(***************************************************************************)
(* Lap tables of the model: every table of up to MaxRows laps of one race  *)
(* by two drivers, each driver's laps numbered 1, 2, ... in row order, at  *)
(* a lap time of 5 or 10, in place 1 or in place Tolerance + 2; and the    *)
(* scenario tables of one driver's 20 laps, which hold the boundary cases. *)
(***************************************************************************)
LapChoices ==
    [driver : {1, 2}, lap_time_ms : {5, 10}, is_pit_lap : {0, 1},
     position_on_lap : {1, 2 + Tolerance}]

\* the rows of the choices, lap_number counting the driver's laps so far
LapTable(choices) ==
    [i \in 1 .. Len(choices) |->
        [race |-> 1, driver |-> choices[i].driver,
         lap_number |-> Cardinality({j \in 1 .. i : choices[j].driver = choices[i].driver}),
         lap_time_ms |-> choices[i].lap_time_ms, is_pit_lap |-> choices[i].is_pit_lap,
         position_on_lap |-> choices[i].position_on_lap]]

\* one driver, one race, laps 1..20 with the given times and positions
ScenarioTable(time, pos) ==
    [i \in 1 .. 20 |->
        [race |-> 1, driver |-> 1, lap_number |-> i, lap_time_ms |-> time[i],
         is_pit_lap |-> 0, position_on_lap |-> pos[i]]]

SlowAt10And11 == [i \in 1 .. 20 |-> IF i \in {10, 11} THEN 110000 ELSE 90000]
AtThresholdAt10 == [i \in 1 .. 20 |-> IF i = 10 THEN 108000 ELSE 90000]
Unchanged == [i \in 1 .. 20 |-> 5]
FiveWorseFrom11 == [i \in 1 .. 20 |-> IF i >= 11 THEN 10 ELSE 5]
FiveWorseOn11 == [i \in 1 .. 20 |-> IF i = 11 THEN 10 ELSE 5]
SlowAt10 == [i \in 1 .. 20 |-> IF i = 10 THEN 110000 ELSE 90000]
ThreeWorseFrom11 == [i \in 1 .. 20 |-> IF i >= 11 THEN 8 ELSE 5]
FourWorseFrom11 == [i \in 1 .. 20 |-> IF i >= 11 THEN 9 ELSE 5]

ScenarioCaution == ScenarioTable(SlowAt10And11, Unchanged)
ScenarioErrorStay == ScenarioTable(SlowAt10And11, FiveWorseFrom11)
ScenarioErrorBack == ScenarioTable(SlowAt10And11, FiveWorseOn11)
ScenarioAtThreshold == ScenarioTable(AtThresholdAt10, Unchanged)
ScenarioThreeWorse == ScenarioTable(SlowAt10, ThreeWorseFrom11)
ScenarioFourWorse == ScenarioTable(SlowAt10, FourWorseFrom11)

\* two races in one table: the caution scenario as race 1, a quiet race 2 after it
ScenarioTwoRaces ==
    ScenarioCaution \o [i \in 1 .. 3 |->
        [race |-> 2, driver |-> 1, lap_number |-> i, lap_time_ms |-> 150000,
         is_pit_lap |-> 0, position_on_lap |-> 5]]

\* two drivers, one race, laps 1..4 each at 90000 ms in places 1 and 2, but for lap 3
\* of driver 2 at 110000 ms; the rows lap by lap (driver 1 then driver 2 of each lap)
ScenarioLapMajor ==
    [i \in 1 .. 8 |->
        LET driver == 2 - (i % 2)
            lap == (i + 1) \div 2
        IN  [race |-> 1, driver |-> driver, lap_number |-> lap,
             lap_time_ms |-> IF driver = 2 /\ lap = 3 THEN 110000 ELSE 90000,
             is_pit_lap |-> 0, position_on_lap |-> driver]]

\* the same laps, the rows driver by driver (the four laps of driver 1 first)
ScenarioDriverMajor ==
    [i \in 1 .. 8 |->
        LET driver == (i + 3) \div 4
            lap == ((i - 1) % 4) + 1
        IN  [race |-> 1, driver |-> driver, lap_number |-> lap,
             lap_time_ms |-> IF driver = 2 /\ lap = 3 THEN 110000 ELSE 90000,
             is_pit_lap |-> 0, position_on_lap |-> driver]]

ScenarioTables ==
    {ScenarioCaution, ScenarioErrorStay, ScenarioErrorBack, ScenarioAtThreshold,
     ScenarioThreeWorse, ScenarioFourWorse, ScenarioTwoRaces,
     ScenarioLapMajor, ScenarioDriverMajor}

ScInputs == {LapTable(c) : c \in SeqsUpTo(LapChoices, MaxRows)} \cup ScenarioTables

ScInit ==
    /\ sc_pc = "ready" /\ sc_laps \in ScInputs /\ sc_out = <<>>
    /\ NormIdle /\ TmIdle /\ PerfIdle /\ PaceIdle /\ PnIdle /\ RilIdle /\ PipeIdle /\ FxIdle /\ FqIdle

IdentifyScLaps ==
    /\ sc_pc = "ready"
    /\ sc_out' = _identify_sc_laps(sc_laps)
    /\ sc_pc' = "done"
    /\ UNCHANGED <<sc_laps, normVars, tmVars, perfVars, paceVars, pnVars, rilVars, pipeVars, fxVars, fqVars>>

ScNext == IdentifyScLaps

SpecSC == ScInit /\ [][ScNext]_vars

(***************************************************************************)
(* The detector's rule, stated on the input table alone.                   *)
(***************************************************************************)
\* the racing laps (not a pit lap, not the opening lap) of row i's race
RacingRowsOf(i) ==
    {j \in 1 .. Len(sc_laps) :
        /\ sc_laps[j].race = sc_laps[i].race
        /\ sc_laps[j].is_pit_lap = 0
        /\ sc_laps[j].lap_number > 1}

\* the k-th smallest lap time among the rows R
OrderStat(R, k) ==
    CHOOSE v \in {sc_laps[j].lap_time_ms : j \in R} :
        /\ Cardinality({j \in R : sc_laps[j].lap_time_ms < v}) < k
        /\ Cardinality({j \in R : sc_laps[j].lap_time_ms <= v}) >= k

\* twice the median lap time of the racing laps of row i's race
TwiceBaseline(i) ==
    LET R == RacingRowsOf(i)
        n == Cardinality(R)
    IN  OrderStat(R, (n + 1) \div 2) + OrderStat(R, n \div 2 + 1)

HasNextOfDriver(i) ==
    \E j \in i + 1 .. Len(sc_laps) :
        sc_laps[j].race = sc_laps[i].race /\ sc_laps[j].driver = sc_laps[i].driver

NextOfDriver(i) ==
    CHOOSE j \in i + 1 .. Len(sc_laps) :
        /\ sc_laps[j].race = sc_laps[i].race /\ sc_laps[j].driver = sc_laps[i].driver
        /\ \A k \in i + 1 .. j - 1 :
               ~(sc_laps[k].race = sc_laps[i].race /\ sc_laps[k].driver = sc_laps[i].driver)

HasNextInRace(i) == \E j \in i + 1 .. Len(sc_laps) : sc_laps[j].race = sc_laps[i].race

NextInRace(i) ==
    CHOOSE j \in i + 1 .. Len(sc_laps) :
        /\ sc_laps[j].race = sc_laps[i].race
        /\ \A k \in i + 1 .. j - 1 : sc_laps[k].race # sc_laps[i].race

\* a racing lap more than threshold_percent times slower than the baseline
SlowCandidate(i) ==
    /\ i \in RacingRowsOf(i)
    /\ 10 * sc_laps[i].lap_time_ms > 6 * TwiceBaseline(i)    \* time > 1.2 * median

\* the driver is more than 3 places worse on their next lap
LostPlaces(i) ==
    /\ HasNextOfDriver(i)
    /\ sc_laps[NextOfDriver(i)].position_on_lap - sc_laps[i].position_on_lap > 3

\* rule (a): slow candidate, and not more than 3 places worse on the next lap
CautionByPace(i) == SlowCandidate(i) /\ ~LostPlaces(i)

\* C3: in a race with at least one racing lap, a pit lap or an opening lap is never
\* flagged is_safety_car_lap, whatever rows follow it.
C3_ExcludedLapsNeverFlagged ==
    sc_pc = "done" =>
        \A i \in 1 .. Len(sc_out) :
            (RacingRowsOf(i) # {} /\ (sc_laps[i].is_pit_lap # 0 \/ sc_laps[i].lap_number = 1))
                => ~sc_out[i].is_safety_car_lap

C5_ErrorLapNotFlagged ==
    sc_pc = "done" =>
        /\ \A i \in 1 .. Len(sc_out) :
               (SlowCandidate(i) /\ LostPlaces(i)) => ~sc_out[i].is_safety_car_lap
        /\ sc_laps \in {ScenarioErrorStay, ScenarioErrorBack}
               => ~sc_out[10].is_safety_car_lap /\ ~sc_out[9].is_safety_car_lap

\* the scenario of C5 alone
C5_ScenarioOnly ==
    (sc_pc = "done" /\ sc_laps \in {ScenarioErrorStay, ScenarioErrorBack})
        => ~sc_out[10].is_safety_car_lap /\ ~sc_out[9].is_safety_car_lap

(***************************************************************************)
(* Tables.  The operations of pandas the pairing code uses, on sequences   *)
(* of rows: an inner merge lists the matching pairs in the order of the    *)
(* left rows and, for one left row, in the order of the right rows.        *)
(***************************************************************************)
\* every pair <<i, j>> of a left row and a right row, in that order
RowPairs(n, m) == [k \in 1 .. n * m |-> <<((k - 1) \div m) + 1, ((k - 1) % m) + 1>>]

\* a - b on columns that may be missing
DiffNA(a, b) == IF a = NA \/ b = NA THEN NA ELSE a - b

(***************************************************************************)
(* add_colunas_companheiro_equipe (analysis/data/utils.py), called with    *)
(* its default keys on a df_dados that has the team column, and with one   *)
(* metric: rows [round_id, driver_ref, constructor_name, metric].          *)
(***************************************************************************)
\* Etapas 2-3: df_pareado, the self-merge on (round_id, constructor_name) without
\* the pairs of a driver with themself
df_pareado(df_com_equipe) ==
    LET n == Len(df_com_equipe)
        Match(pr) ==
            /\ df_com_equipe[pr[1]].round_id = df_com_equipe[pr[2]].round_id
            /\ df_com_equipe[pr[1]].constructor_name = df_com_equipe[pr[2]].constructor_name
            /\ df_com_equipe[pr[1]].driver_ref # df_com_equipe[pr[2]].driver_ref
        prs == SelectSeq(RowPairs(n, n), Match)
    IN  [k \in 1 .. Len(prs) |->
            [round_id |-> df_com_equipe[prs[k][1]].round_id,
             driver_ref |-> df_com_equipe[prs[k][1]].driver_ref,
             metric_tmate |-> df_com_equipe[prs[k][2]].metric,
             driver_ref_tmate |-> df_com_equipe[prs[k][2]].driver_ref]]

\* Etapa 4 without the drop_duplicates
df_stats_companheiro_all(pareado) == pareado

\* Etapa 4: drop_duplicates(subset=chaves_lookup), the first row of each
\* (round_id, driver_ref) is kept
df_stats_companheiro(pareado) ==
    LET First(k) ==
            \A h \in 1 .. k - 1 :
                ~(pareado[h].round_id = pareado[k].round_id
                  /\ pareado[h].driver_ref = pareado[k].driver_ref)
        keep == SelectSeq([k \in 1 .. Len(pareado) |-> k], First)
    IN  [k \in 1 .. Len(keep) |-> pareado[keep[k]]]

\* the difference taken without its sign
metric_diff_tmate_abs(m, tmate) == IF DiffNA(m, tmate) = NA THEN NA ELSE Abs(m - tmate)

\* Etapa 6: <m>_diff_tmate = <m> - <m>_tmate
metric_diff_tmate(m, tmate) == DiffNA(m, tmate)

\* Etapas 5-6: the left merge of df_dados with df_stats_companheiro on
\* (round_id, driver_ref), and the diff column
RECURSIVE LeftMergeStats(_, _)
LeftMergeStats(df_dados, stats) ==
    IF df_dados = <<>> THEN <<>>
    ELSE LET row == Head(df_dados)
             On(k) == stats[k].round_id = row.round_id /\ stats[k].driver_ref = row.driver_ref
             hits == SelectSeq([k \in 1 .. Len(stats) |-> k], On)
             Out(tmate, ref) ==
                 [round_id |-> row.round_id, driver_ref |-> row.driver_ref,
                  constructor_name |-> row.constructor_name, metric |-> row.metric,
                  metric_tmate |-> tmate, driver_ref_tmate |-> ref,
                  metric_diff_tmate |-> metric_diff_tmate(row.metric, tmate)]
             rows == IF hits = <<>> THEN <<Out(NA, NA)>>
                     ELSE [k \in 1 .. Len(hits) |->
                              Out(stats[hits[k]].metric_tmate, stats[hits[k]].driver_ref_tmate)]
         IN  rows \o LeftMergeStats(Tail(df_dados), stats)

add_colunas_companheiro_equipe(df_dados) ==
    LeftMergeStats(df_dados, df_stats_companheiro(df_pareado(df_dados)))

\* df_dados of the model: up to MaxDados rows of drivers 1..3 in round 1 and of
\* drivers 1 and 3 in round 2; the three share constructor 1 in round 1, driver 3
\* is alone in constructor 2 in round 2; a driver may have several rows in a round
ConstructorOf(round, driver) == IF round = 2 /\ driver = 3 THEN 2 ELSE 1

DadosRows ==
    {[round_id |-> rd[1], driver_ref |-> rd[2],
      constructor_name |-> ConstructorOf(rd[1], rd[2]), metric |-> v] :
        rd \in {<<1, 1>>, <<1, 2>>, <<1, 3>>, <<2, 1>>, <<2, 3>>}, v \in {1, 3, NA}}

TmInputs == SeqsUpTo(DadosRows, MaxDados)

TmInit ==
    /\ tm_pc = "ready" /\ tm_dados \in TmInputs /\ tm_stats = <<>> /\ tm_final = <<>>
    /\ NormIdle /\ ScIdle /\ PerfIdle /\ PaceIdle /\ PnIdle /\ RilIdle /\ PipeIdle /\ FxIdle /\ FqIdle

AddColunasCompanheiroEquipe ==
    /\ tm_pc = "ready"
    /\ tm_stats' = df_stats_companheiro(df_pareado(tm_dados))
    /\ tm_final' = add_colunas_companheiro_equipe(tm_dados)
    /\ tm_pc' = "done"
    /\ UNCHANGED <<tm_dados, normVars, scVars, perfVars, paceVars, pnVars, rilVars, pipeVars, fxVars, fqVars>>

TmNext == AddColunasCompanheiroEquipe

SpecTm == TmInit /\ [][TmNext]_vars

\* C10: add_colunas_companheiro_equipe removes and duplicates no row: df_final has
\* exactly one row per row of df_dados, in the same order, the original columns unchanged.
C10_NoRowFilteredOrAdded ==
    tm_pc = "done" =>
        /\ Len(tm_final) = Len(tm_dados)
        /\ \A i \in 1 .. Len(tm_dados) :
               /\ tm_final[i].round_id = tm_dados[i].round_id
               /\ tm_final[i].driver_ref = tm_dados[i].driver_ref
               /\ tm_final[i].constructor_name = tm_dados[i].constructor_name
               /\ tm_final[i].metric = tm_dados[i].metric

\* a driver with two rows in a round and a teammate, who is paired with both of them
C10_Witness ==
    /\ tm_pc = "done"
    /\ Len(tm_final) = Len(tm_dados)
    /\ \E i, j \in 1 .. Len(tm_dados) :
           /\ i # j
           /\ tm_dados[i].round_id = tm_dados[j].round_id
           /\ tm_dados[i].driver_ref = tm_dados[j].driver_ref
           /\ tm_final[i].driver_ref_tmate # NA
           /\ \E k \in 1 .. Len(tm_dados) :
                  tm_final[k].driver_ref_tmate = tm_dados[i].driver_ref

(***************************************************************************)
(* More of pandas: group keys come out sorted, a mean skips the missing    *)
(* values and is NaN when nothing is left, a sum skips them too.           *)
(***************************************************************************)
RECURSIVE LexLess(_, _)
LexLess(a, b) ==
    IF a = <<>> THEN FALSE
    ELSE IF Head(a) < Head(b) THEN TRUE
    ELSE IF Head(a) > Head(b) THEN FALSE
    ELSE LexLess(Tail(a), Tail(b))

\* the tuples of S in ascending order
RECURSIVE SortKeys(_)
SortKeys(S) ==
    IF S = {} THEN <<>>
    ELSE LET m == CHOOSE x \in S : \A y \in S \ {x} : LexLess(x, y)
         IN  <<m>> \o SortKeys(S \ {m})

\* column col of a table
Col(df, col) == [k \in 1 .. Len(df) |-> df[k][col]]

Present(v) == v # NA

SumNA(vals) == SumSeq(SelectSeq(vals, Present))

MeanNA(vals) ==
    LET kept == SelectSeq(vals, Present)
    IN  IF kept = <<>> THEN NaN ELSE FRat(SumSeq(kept), Len(kept))

\* a positive number over zero
Inf == [nan |-> FALSE, p |-> 1, q |-> 0, r |-> 0]

RECURSIVE SumF(_)
SumF(fs) == IF fs = <<>> THEN FInt(0) ELSE FAdd(Head(fs), SumF(Tail(fs)))

NotNaN(f) == ~f.nan

\* the mean of the values that are not NaN, over the radicand T
MeanF(fs, T) ==
    LET kept == SelectSeq(fs, NotNaN)
    IN  IF kept = <<>> THEN NaN
        ELSE IF \E k \in 1 .. Len(kept) : kept[k] = Inf THEN Inf
        ELSE FDiv(SumF(kept), FInt(Len(kept)), T)

\* a / b of two columns, neither negative: x / 0 is inf, 0 / 0 is NaN
RatioF(a, b, T) ==
    IF a.nan \/ b.nan THEN NaN
    ELSE IF FSign(b, T) = 0 THEN (IF FSign(a, T) = 0 THEN NaN ELSE Inf)
    ELSE FDiv(a, b, T)

\* a < b with a missing b counted as behind every number
LessMissingLast(a, b) == a # NA /\ (b = NA \/ a < b)

\* a < b on columns that may be missing: a comparison with NaN is False
LessNA(a, b) == a # NA /\ b # NA /\ a < b

(***************************************************************************)
(* PerformanceFeatureExtractor.execute (modules/features/performance).     *)
(* df_results has the rows [year, race_name, constructor_name, driver_id,  *)
(* starting_position, finishing_position, points_scored, session_type];    *)
(* names are numbered in alphabetical order.  The name columns of the      *)
(* metadata are left out.                                                  *)
(***************************************************************************)
IsRace(r) == r.session_type = "R"

\* the rows of every session, with positions_gained
df_race_any_session(df_results) ==
    [k \in 1 .. Len(df_results) |->
        [year |-> df_results[k].year, race_name |-> df_results[k].race_name,
         constructor_name |-> df_results[k].constructor_name,
         driver_id |-> df_results[k].driver_id,
         starting_position |-> df_results[k].starting_position,
         finishing_position |-> df_results[k].finishing_position,
         points_scored |-> df_results[k].points_scored,
         positions_gained |-> DiffNA(df_results[k].starting_position,
                                     df_results[k].finishing_position)]]

\* lines 46-58: the race rows, with positions_gained
df_race(df_results) ==
    LET rs == SelectSeq(df_results, IsRace)
    IN  [k \in 1 .. Len(rs) |->
            [year |-> rs[k].year, race_name |-> rs[k].race_name,
             constructor_name |-> rs[k].constructor_name, driver_id |-> rs[k].driver_id,
             starting_position |-> rs[k].starting_position,
             finishing_position |-> rs[k].finishing_position,
             points_scored |-> rs[k].points_scored,
             positions_gained |-> DiffNA(rs[k].starting_position, rs[k].finishing_position)]]

\* lines 64-93: the self-merge on (year, race_name, constructor_name) without the
\* pairs of a driver with themself, and the comparison columns; the rows are not
\* reduced to one per driver and race
race_merged(df) ==
    LET n == Len(df)
        Match(pr) ==
            /\ df[pr[1]].year = df[pr[2]].year
            /\ df[pr[1]].race_name = df[pr[2]].race_name
            /\ df[pr[1]].constructor_name = df[pr[2]].constructor_name
            /\ df[pr[1]].driver_id # df[pr[2]].driver_id
        prs == SelectSeq(RowPairs(n, n), Match)
        Row(a, b) ==
            [year |-> a.year, race_name |-> a.race_name,
             constructor_name |-> a.constructor_name, driver_id |-> a.driver_id,
             starting_position |-> a.starting_position,
             finishing_position |-> a.finishing_position,
             points_scored |-> a.points_scored,
             teammate_id |-> b.driver_id,
             teammate_start |-> b.starting_position,
             teammate_finish |-> b.finishing_position,
             teammate_points |-> b.points_scored,
             qualified_ahead |-> LessNA(a.starting_position, b.starting_position),
             finished_ahead |-> LessNA(a.finishing_position, b.finishing_position),
             grid_pos_diff |-> DiffNA(a.starting_position, b.starting_position),
             finish_pos_diff |-> DiffNA(a.finishing_position, b.finishing_position),
             points_diff |-> DiffNA(a.points_scored, b.points_scored)]
    IN  [k \in 1 .. Len(prs) |-> Row(df[prs[k][1]], df[prs[k][2]])]

CountTrue(vals) == Len(SelectSeq(vals, LAMBDA b : b))

\* lines 96-109: h2h_stats, one row per (year, driver_id) of race_merged
h2h_stats(merged_rows) ==
    LET keys == SortKeys({<<merged_rows[k].year, merged_rows[k].driver_id>> :
                             k \in 1 .. Len(merged_rows)})
        Stat(key) ==
            LET InGroup(r) == r.year = key[1] /\ r.driver_id = key[2]
                g == SelectSeq(merged_rows, InGroup)
                qualy_wins == CountTrue(Col(g, "qualified_ahead"))
                race_wins == CountTrue(Col(g, "finished_ahead"))
                total_h2h_races == Len(g)
            IN  [year |-> key[1], driver_id |-> key[2],
                 qualy_h2h_wins |-> qualy_wins,
                 race_h2h_wins |-> race_wins,
                 starting_pos_diff_vs_tmate |-> MeanNA(Col(g, "grid_pos_diff")),
                 finish_pos_diff_vs_tmate |-> MeanNA(Col(g, "finish_pos_diff")),
                 points_obtained_diff_vs_tmate |-> MeanNA(Col(g, "points_diff")),
                 qualy_vs_teammate_win_rate |-> FRat(qualy_wins, total_h2h_races),
                 race_vs_teammate_win_rate |-> FRat(race_wins, total_h2h_races)]
    IN  [k \in 1 .. Len(keys) |-> Stat(keys[k])]

\* lines 121-123: team_total_points of a constructor in a year
team_total_points(df, year, constructor) ==
    LET InTeam(r) == r.year = year /\ r.constructor_name = constructor
    IN  SumNA(Col(SelectSeq(df, InTeam), "points_scored"))

\* lines 113-131: merged, one row per (year, driver_id, constructor_name) with the
\* yearly figures, the share of the team's points and the points per race
driver_yearly_merged(df) ==
    LET keys == SortKeys({<<df[k].year, df[k].driver_id, df[k].constructor_name>> :
                             k \in 1 .. Len(df)})
        Stat(key) ==
            LET InGroup(r) == r.year = key[1] /\ r.driver_id = key[2]
                                  /\ r.constructor_name = key[3]
                g == SelectSeq(df, InGroup)
                total == SumNA(Col(g, "points_scored"))
                team == team_total_points(df, key[1], key[3])
                races_count == Cardinality({g[k].race_name : k \in 1 .. Len(g)})
            IN  [year |-> key[1], driver_id |-> key[2], constructor_name |-> key[3],
                 total_points |-> total,
                 avg_finish |-> MeanNA(Col(g, "finishing_position")),
                 avg_grid |-> MeanNA(Col(g, "starting_position")),
                 avg_gained |-> MeanNA(Col(g, "positions_gained")),
                 races_count |-> races_count,
                 team_total_points |-> team,
                 points_share_of_team |-> IF team > 0 THEN FRat(total, team) ELSE FInt(0),
                 points_per_race |-> FRat(total, races_count)]
    IN  [k \in 1 .. Len(keys) |-> Stat(keys[k])]

\* lines 133-140: year_driver_agg, one row per (driver_id, year)
year_driver_agg(merged) ==
    LET keys == SortKeys({<<merged[k].driver_id, merged[k].year>> : k \in 1 .. Len(merged)})
        Stat(key) ==
            LET InGroup(r) == r.driver_id = key[1] /\ r.year = key[2]
                g == SelectSeq(merged, InGroup)
            IN  [driver_id |-> key[1], year |-> key[2],
                 total_points |-> SumSeq(Col(g, "total_points")),
                 avg_finish_pos |-> MeanF(Col(g, "avg_finish"), 0),
                 avg_grid_pos |-> MeanF(Col(g, "avg_grid"), 0),
                 avg_positions_gained |-> MeanF(Col(g, "avg_gained"), 0),
                 points_per_race |-> MeanF(Col(g, "points_per_race"), 0),
                 team_points_share |-> MeanF(Col(g, "points_share_of_team"), 0)]
    IN  [k \in 1 .. Len(keys) |-> Stat(keys[k])]

\* line 154: the most frequent constructor_name of a driver's rows of a year, the
\* first in sorted order among equals
constructor_mode(df_results, driver, year) ==
    LET Mine(r) == r.driver_id = driver /\ r.year = year
        g == SelectSeq(df_results, Mine)
        names == {g[k].constructor_name : k \in 1 .. Len(g)}
        Count(c) == Cardinality({k \in 1 .. Len(g) : g[k].constructor_name = c})
        modes == {c \in names : \A o \in names : Count(o) <= Count(c)}
    IN  CHOOSE c \in modes : \A o \in modes : c <= o

\* lines 143-164: final_agg, year_driver_agg left-merged with h2h_stats on
\* (year, driver_id) and with the metadata on (driver_id, year)
final_agg(df_results, agg, h2h) ==
    LET Row(a) ==
            LET On(k) == h2h[k].year = a.year /\ h2h[k].driver_id = a.driver_id
                hits == SelectSeq([k \in 1 .. Len(h2h) |-> k], On)
                Out(has, h) ==
                    [driver_id |-> a.driver_id, year |-> a.year,
                     constructor_name |-> constructor_mode(df_results, a.driver_id, a.year),
                     total_points |-> a.total_points,
                     avg_finish_pos |-> a.avg_finish_pos,
                     avg_grid_pos |-> a.avg_grid_pos,
                     avg_positions_gained |-> a.avg_positions_gained,
                     points_per_race |-> a.points_per_race,
                     team_points_share |-> a.team_points_share,
                     qualy_h2h_wins |-> IF has THEN h.qualy_h2h_wins ELSE NA,
                     race_h2h_wins |-> IF has THEN h.race_h2h_wins ELSE NA,
                     starting_pos_diff_vs_tmate |->
                         IF has THEN h.starting_pos_diff_vs_tmate ELSE NaN,
                     finish_pos_diff_vs_tmate |->
                         IF has THEN h.finish_pos_diff_vs_tmate ELSE NaN,
                     points_obtained_diff_vs_tmate |->
                         IF has THEN h.points_obtained_diff_vs_tmate ELSE NaN,
                     qualy_vs_teammate_win_rate |->
                         IF has THEN h.qualy_vs_teammate_win_rate ELSE NaN,
                     race_vs_teammate_win_rate |->
                         IF has THEN h.race_vs_teammate_win_rate ELSE NaN]
            IN  IF hits = <<>> THEN <<Out(FALSE, a)>>
                ELSE [k \in 1 .. Len(hits) |-> Out(TRUE, h2h[hits[k]])]
        RECURSIVE Rows(_)
        Rows(rest) == IF rest = <<>> THEN <<>> ELSE Row(Head(rest)) \o Rows(Tail(rest))
    IN  Rows(agg)

\* execute: an empty frame when there are no results, else final_agg
execute(df_results) ==
    IF df_results = <<>> THEN <<>>
    ELSE LET df == df_race(df_results)
         IN  final_agg(df_results, year_driver_agg(driver_yearly_merged(df)),
                       h2h_stats(race_merged(df)))

\* points_scored of a finishing position: 25 and 18 for the first two, none
\* for a car that is not classified
PointsFor(finish) == IF finish = 1 THEN 25 ELSE IF finish = 2 THEN 18 ELSE 0

\* the race entries a season of the model can have: races 1 and 2, drivers 1..3,
\* with the constructors of ConstructorOf
PerfSlots == <<<<1, 1>>, <<1, 2>>, <<1, 3>>, <<2, 1>>, <<2, 2>>, <<2, 3>>>>

ResultRow(race, driver, start, finish, session) ==
    [year |-> 2024, race_name |-> race, constructor_name |-> ConstructorOf(race, driver),
     driver_id |-> driver, starting_position |-> start, finishing_position |-> finish,
     points_scored |-> PointsFor(finish), session_type |-> session]

\* the tables with at most n race rows, of the slots k and later
RECURSIVE EntryTables(_, _)
EntryTables(k, n) ==
    IF k > Len(PerfSlots) \/ n = 0 THEN {<<>>}
    ELSE EntryTables(k + 1, n)
         \cup {<<ResultRow(PerfSlots[k][1], PerfSlots[k][2], st, fin, "R")>> \o t :
                  st \in {1, 2}, fin \in {1, 2, NA}, t \in EntryTables(k + 1, n - 1)}

\* df_results: race rows, and possibly a qualifying row of driver 1
PerfInputs ==
    {t \o q : t \in EntryTables(1, MaxEntries), q \in {<<>>, <<ResultRow(1, 1, 1, 1, "Q")>>}}

PerfInit ==
    /\ perf_pc = "ready" /\ perf_results \in PerfInputs
    /\ perf_none \in {none \in BOOLEAN : none => perf_results = <<>>}
    /\ perf_merged = <<>> /\ perf_out = <<>>
    /\ NormIdle /\ ScIdle /\ TmIdle /\ PaceIdle /\ PnIdle /\ RilIdle /\ PipeIdle /\ FxIdle /\ FqIdle

Execute ==
    /\ perf_pc = "ready"
    /\ perf_merged' = IF perf_none \/ perf_results = <<>> THEN <<>>
                      ELSE race_merged(df_race(perf_results))
    /\ perf_out' = IF perf_none THEN <<>> ELSE execute(perf_results)
    /\ perf_pc' = "done"
    /\ UNCHANGED <<perf_none, perf_results, normVars, scVars, tmVars, paceVars, pnVars, rilVars, pipeVars, fxVars, fqVars>>

PerfNext == Execute

SpecPerf == PerfInit /\ [][PerfNext]_vars

(***************************************************************************)
(* PaceFeatureExtractor (modules/features/pace).  df_laps has the rows     *)
(* [year, race_name, constructor_name, driver_id, lap_number, lap_time_ms, *)
(* is_pit_lap, position_on_lap, race_status, stint_number], df_qualify the *)
(* rows [year, race_name, constructor_name, driver_id, best_lap_time].     *)
(* Floats are over the radicand 2: the lap times of the model give every   *)
(* standard deviation as a rational multiple of 1 or of sqrt(2).           *)
(***************************************************************************)
MinRaces == 3      \* min_races, the least race_count of a valid stint

StintKeyOf(r) == <<r.year, r.constructor_name, r.driver_id>>

\* get_valid_stints (modules/features/utils.py, absent from the sources): the
\* race_count of every (year, constructor_name, driver_id) over the frames, and
\* the stints whose race_count reaches min_races
get_valid_stints(frames) ==
    LET rows == frames[1] \o frames[2]
        keys == SortKeys({StintKeyOf(rows[k]) : k \in 1 .. Len(rows)})
        Count(key) == Cardinality({rows[k].race_name :
                                      k \in {j \in 1 .. Len(rows) : StintKeyOf(rows[j]) = key}})
        stint_counts ==
            [k \in 1 .. Len(keys) |->
                [year |-> keys[k][1], constructor_name |-> keys[k][2],
                 driver_id |-> keys[k][3], race_count |-> Count(keys[k])]]
        IsValid(c) == c.race_count >= MinRaces
    IN  [valid_stints |-> SelectSeq(stint_counts, IsValid), stint_counts |-> stint_counts]

\* _filter_short_stint_drivers: self.df_laps, self.df_qualify and self.stint_counts
\* after the call
_filter_short_stint_drivers(df_laps, df_qualify) ==
    LET res == get_valid_stints(<<df_laps, df_qualify>>)
        valid == {StintKeyOf(res.valid_stints[k]) : k \in 1 .. Len(res.valid_stints)}
        Kept(r) == StintKeyOf(r) \in valid
    IN  IF res.valid_stints = <<>>
        THEN [df_laps |-> df_laps, df_qualify |-> df_qualify,
              stint_counts |-> res.stint_counts]
        ELSE [df_laps |-> SelectSeq(df_laps, Kept), df_qualify |-> SelectSeq(df_qualify, Kept),
              stint_counts |-> res.stint_counts]

\* the columns _identify_sc_laps reads, under the names of the lap tables above
ScColumns(df) ==
    [i \in 1 .. Len(df) |->
        [race |-> <<df[i].year, df[i].race_name>>, driver |-> df[i].driver_id,
         lap_number |-> df[i].lap_number, lap_time_ms |-> df[i].lap_time_ms,
         is_pit_lap |-> df[i].is_pit_lap, position_on_lap |-> df[i].position_on_lap]]

\* remove_invalid_laps with its defaults: no safety-car lap, no pit lap, no first
\* lap, no lap of a race the driver did not finish
remove_invalid_laps(df) ==
    LET flagged == _identify_sc_laps(ScColumns(df))
        keep == InRowOrder({i \in 1 .. Len(df) :
                                /\ ~flagged[i].is_safety_car_lap
                                /\ df[i].is_pit_lap = 0
                                /\ df[i].lap_number > 1
                                /\ df[i].race_status = 0})
    IN  [k \in 1 .. Len(keep) |-> df[keep[k]]]

\* Series.std() of lap times: NaN under two values, else sqrt(radicand) / (n (n - 1))
\* with the radicand k^2 or 2 k^2
lap_time_std(xs) ==
    LET n == Len(xs)
        rad == StdRadicand(xs)
        k == CHOOSE j \in 0 .. rad : j * j = rad \/ 2 * j * j = rad
    IN  IF n < 2 THEN NaN
        ELSE IF k * k = rad THEN FNorm(k, 0, n * (n - 1))
        ELSE FNorm(0, k, n * (n - 1))

\* lines 78-89: driver_race_stats, one row per (year, race_name, driver_id,
\* constructor_name) of the clean laps: the median lap time and the mean of the
\* standard deviations of the stints
driver_race_stats(df_clean) ==
    LET KeyOf(r) == <<r.year, r.race_name, r.driver_id, r.constructor_name>>
        keys == SortKeys({KeyOf(df_clean[k]) : k \in 1 .. Len(df_clean)})
        Stat(key) ==
            LET InGroup(r) == KeyOf(r) = key
                g == SelectSeq(df_clean, InGroup)
                stints == SortKeys({<<g[k].stint_number>> : k \in 1 .. Len(g)})
                StintStd(st) ==
                    LET InStint(r) == r.stint_number = st[1]
                    IN  lap_time_std(Col(SelectSeq(g, InStint), "lap_time_ms"))
            IN  [year |-> key[1], race_name |-> key[2], driver_id |-> key[3],
                 constructor_name |-> key[4],
                 driver_median_pace |-> FRat(Median2(Col(g, "lap_time_ms")), 2),
                 driver_lap_time_std_dev |->
                     MeanF([k \in 1 .. Len(stints) |-> StintStd(stints[k])], 2)]
    IN  [k \in 1 .. Len(keys) |-> Stat(keys[k])]

\* the values of fs that are not NaN, in ascending order
RECURSIVE SortF(_, _)
SortF(fs, T) ==
    IF fs = <<>> THEN <<>>
    ELSE LET x == Head(fs)
             rest == SortF(Tail(fs), T)
             Below(y) == FLt(y, x, T)
             NotBelow(y) == ~FLt(y, x, T)
         IN  IF x.nan THEN rest
             ELSE SelectSeq(rest, Below) \o <<x>> \o SelectSeq(rest, NotBelow)

\* Series.median() of floats
MedianF(fs, T) ==
    LET srt == SortF(fs, T)
        n == Len(srt)
    IN  IF n = 0 THEN NaN
        ELSE IF n % 2 = 1 THEN srt[(n + 1) \div 2]
        ELSE FDiv(FAdd(srt[n \div 2], srt[n \div 2 + 1]), FInt(2), T)

\* lines 92-95: race_stats of one (year, race_name)
race_median_pace(stats, year, race) ==
    LET InRace(r) == r.year = year /\ r.race_name = race
    IN  MedianF(Col(SelectSeq(stats, InRace), "driver_median_pace"), 2)

race_avg_lap_time_std_dev(stats, year, race) ==
    LET InRace(r) == r.year = year /\ r.race_name = race
    IN  MeanF(Col(SelectSeq(stats, InRace), "driver_lap_time_std_dev"), 2)

\* race_count of a teammate in stint_counts, NA without a row (the left merges of
\* lines 116 and 175)
teammate_races(stint_counts, year, constructor, teammate) ==
    LET hit == {k \in 1 .. Len(stint_counts) :
                    /\ stint_counts[k].year = year
                    /\ stint_counts[k].constructor_name = constructor
                    /\ stint_counts[k].driver_id = teammate}
    IN  IF hit = {} THEN NA ELSE stint_counts[SetMin(hit)].race_count

\* lines 119 and 177: sort_values by year, race_name, driver_id ascending and
\* teammate_races descending, missing counts last; rows with equal keys keep
\* their order
sort_by_teammate_races(rows) ==
    LET KeyOf(r) == <<r.year, r.race_name, r.driver_id,
                      IF r.teammate_races = NA THEN 0 - NA ELSE 0 - r.teammate_races>>
        RECURSIVE Sorted(_)
        Sorted(rest) ==
            IF rest = <<>> THEN <<>>
            ELSE LET x == rest[Len(rest)]
                     front == Sorted(SubSeq(rest, 1, Len(rest) - 1))
                     NotAfter(y) == ~LexLess(KeyOf(x), KeyOf(y))
                     After(y) == LexLess(KeyOf(x), KeyOf(y))
                 IN  SelectSeq(front, NotAfter) \o <<x>> \o SelectSeq(front, After)
    IN  Sorted(rows)

\* lines 122 and 179: drop_duplicates(subset=[year, race_name, driver_id], keep='first')
drop_duplicate_drivers(rows) ==
    LET First(k) ==
            \A h \in 1 .. k - 1 :
                ~(rows[h].year = rows[k].year /\ rows[h].race_name = rows[k].race_name
                  /\ rows[h].driver_id = rows[k].driver_id)
        keep == SelectSeq([k \in 1 .. Len(rows) |-> k], First)
    IN  [k \in 1 .. Len(keep) |-> rows[keep[k]]]

\* lines 97-133: driver_with_teammate, the self-merge of driver_race_stats on
\* (year, race_name, constructor_name) without the pairs of a driver with
\* themself, reduced to one teammate per driver and race, with the ratios
driver_with_teammate(stats, stint_counts) ==
    LET n == Len(stats)
        Match(pr) ==
            /\ stats[pr[1]].year = stats[pr[2]].year
            /\ stats[pr[1]].race_name = stats[pr[2]].race_name
            /\ stats[pr[1]].constructor_name = stats[pr[2]].constructor_name
            /\ stats[pr[1]].driver_id # stats[pr[2]].driver_id
        prs == SelectSeq(RowPairs(n, n), Match)
        Row(a, b) ==
            LET field_pace == race_median_pace(stats, a.year, a.race_name)
                field_std == race_avg_lap_time_std_dev(stats, a.year, a.race_name)
            IN  [year |-> a.year, race_name |-> a.race_name, driver_id |-> a.driver_id,
                 constructor_name |-> a.constructor_name,
                 driver_median_pace |-> a.driver_median_pace,
                 driver_lap_time_std_dev |-> a.driver_lap_time_std_dev,
                 teammate_id |-> b.driver_id,
                 teammate_median_pace |-> b.driver_median_pace,
                 teammate_lap_time_std_dev |-> b.driver_lap_time_std_dev,
                 teammate_races |->
                     teammate_races(stint_counts, a.year, a.constructor_name, b.driver_id),
                 pace_vs_field |-> RatioF(a.driver_median_pace, field_pace, 2),
                 pace_vs_teammate |-> RatioF(a.driver_median_pace, b.driver_median_pace, 2),
                 lap_time_std_dev_vs_field |->
                     RatioF(a.driver_lap_time_std_dev, field_std, 2),
                 lap_time_std_dev_vs_teammate |->
                     RatioF(a.driver_lap_time_std_dev, b.driver_lap_time_std_dev, 2)]
        paired == [k \in 1 .. Len(prs) |-> Row(stats[prs[k][1]], stats[prs[k][2]])]
    IN  drop_duplicate_drivers(sort_by_teammate_races(paired))

\* lines 136-142: final_stats, the season means per (driver_id, year)
final_stats(pairs) ==
    LET keys == SortKeys({<<pairs[k].driver_id, pairs[k].year>> : k \in 1 .. Len(pairs)})
        Stat(key) ==
            LET InGroup(r) == r.driver_id = key[1] /\ r.year = key[2]
                g == SelectSeq(pairs, InGroup)
            IN  [driver_id |-> key[1], year |-> key[2],
                 avg_pace_vs_field |-> MeanF(Col(g, "pace_vs_field"), 2),
                 avg_pace_vs_teammate |-> MeanF(Col(g, "pace_vs_teammate"), 2),
                 avg_lap_time_std_dev_vs_field |->
                     MeanF(Col(g, "lap_time_std_dev_vs_field"), 2),
                 avg_lap_time_std_dev_vs_teammate |->
                     MeanF(Col(g, "lap_time_std_dev_vs_teammate"), 2),
                 avg_raw_lap_time_std_dev |-> MeanF(Col(g, "driver_lap_time_std_dev"), 2)]
    IN  [k \in 1 .. Len(keys) |-> Stat(keys[k])]

\* a column of times as floats
TimeF(t) == IF t = NA THEN NaN ELSE FInt(t)

\* line 159: the least best_lap_time of a race, missing times skipped
pole_time(df, year, race) ==
    LET InRace(r) == r.year = year /\ r.race_name = race
        times == [k \in 1 .. Len(df) |-> TimeF(df[k].best_lap_time)]
        idx == SelectSeq([k \in 1 .. Len(df) |-> k], LAMBDA k : InRace(df[k]))
    IN  SeriesMin([k \in 1 .. Len(idx) |-> times[idx[k]]], 0)

\* lines 163-187: df_final of the qualifying path
qualifying_pairs(df, stint_counts) ==
    LET n == Len(df)
        Match(pr) ==
            /\ df[pr[1]].year = df[pr[2]].year
            /\ df[pr[1]].race_name = df[pr[2]].race_name
            /\ df[pr[1]].constructor_name = df[pr[2]].constructor_name
            /\ df[pr[1]].driver_id # df[pr[2]].driver_id
        prs == SelectSeq(RowPairs(n, n), Match)
        Row(a, b) ==
            LET pole == pole_time(df, a.year, a.race_name)
            IN  [year |-> a.year, race_name |-> a.race_name, driver_id |-> a.driver_id,
                 constructor_name |-> a.constructor_name,
                 best_lap_time |-> a.best_lap_time, pole_time |-> pole,
                 teammate_id |-> b.driver_id, teammate_best_time |-> b.best_lap_time,
                 teammate_races |->
                     teammate_races(stint_counts, a.year, a.constructor_name, b.driver_id),
                 gap_to_pole_pct |->
                     FSub(RatioF(TimeF(a.best_lap_time), pole, 0), FInt(1)),
                 gap_to_teammate_pct |->
                     FSub(RatioF(TimeF(a.best_lap_time), TimeF(b.best_lap_time), 0), FInt(1))]
        paired == [k \in 1 .. Len(prs) |-> Row(df[prs[k][1]], df[prs[k][2]])]
    IN  drop_duplicate_drivers(sort_by_teammate_races(paired))

\* lines 190-193: agg_stats, the season means per (driver_id, year)
agg_stats(pairs) ==
    LET keys == SortKeys({<<pairs[k].driver_id, pairs[k].year>> : k \in 1 .. Len(pairs)})
        Stat(key) ==
            LET InGroup(r) == r.driver_id = key[1] /\ r.year = key[2]
                g == SelectSeq(pairs, InGroup)
            IN  [driver_id |-> key[1], year |-> key[2],
                 avg_qualifying_gap_to_pole_pct |-> MeanF(Col(g, "gap_to_pole_pct"), 0),
                 avg_qualifying_gap_to_teammate_pct |->
                     MeanF(Col(g, "gap_to_teammate_pct"), 0)]
    IN  [k \in 1 .. Len(keys) |-> Stat(keys[k])]

\* lines 216-235: constructor_name of the metadata, from df_laps when the driver
\* has laps of the year, else from df_qualify
meta_constructor(df_laps, df_qualify, driver, year) ==
    IF \E k \in 1 .. Len(df_laps) : df_laps[k].driver_id = driver /\ df_laps[k].year = year
    THEN constructor_mode(df_laps, driver, year)
    ELSE constructor_mode(df_qualify, driver, year)

\* lines 201-245: the season table of race_stats and qualy_stats, merged on
\* (driver_id, year) when neither is empty; the columns of an empty side are
\* written NaN
merge_pace_stats(race_stats, qualy_stats, df_laps, df_qualify) ==
    LET keys == SortKeys({<<race_stats[k].driver_id, race_stats[k].year>> :
                             k \in 1 .. Len(race_stats)}
                         \cup {<<qualy_stats[k].driver_id, qualy_stats[k].year>> :
                                  k \in 1 .. Len(qualy_stats)})
        Row(key) ==
            LET rs == {k \in 1 .. Len(race_stats) :
                           race_stats[k].driver_id = key[1] /\ race_stats[k].year = key[2]}
                qs == {k \in 1 .. Len(qualy_stats) :
                           qualy_stats[k].driver_id = key[1] /\ qualy_stats[k].year = key[2]}
                r == race_stats[SetMin(rs)]
                q == qualy_stats[SetMin(qs)]
            IN  [driver_id |-> key[1], year |-> key[2],
                 constructor_name |-> meta_constructor(df_laps, df_qualify, key[1], key[2]),
                 avg_pace_vs_field |-> IF rs = {} THEN NaN ELSE r.avg_pace_vs_field,
                 avg_pace_vs_teammate |-> IF rs = {} THEN NaN ELSE r.avg_pace_vs_teammate,
                 avg_lap_time_std_dev_vs_field |->
                     IF rs = {} THEN NaN ELSE r.avg_lap_time_std_dev_vs_field,
                 avg_lap_time_std_dev_vs_teammate |->
                     IF rs = {} THEN NaN ELSE r.avg_lap_time_std_dev_vs_teammate,
                 avg_raw_lap_time_std_dev |->
                     IF rs = {} THEN NaN ELSE r.avg_raw_lap_time_std_dev,
                 avg_qualifying_gap_to_pole_pct |->
                     IF qs = {} THEN NaN ELSE q.avg_qualifying_gap_to_pole_pct,
                 avg_qualifying_gap_to_teammate_pct |->
                     IF qs = {} THEN NaN ELSE q.avg_qualifying_gap_to_teammate_pct]
    IN  [k \in 1 .. Len(keys) |-> Row(keys[k])]

\* the lap and qualifying rows of one race entry.  A steady driver laps in 10, 10,
\* 10 and qualifies in 10; an uneven one laps in 10, 10, 13 and qualifies in 11; a
\* retired one laps as a steady one but does not finish, and sets no qualifying time;
\* an absent one qualifies in 10 and has no row in the lap table
EntryLaps(e) ==
    [lap \in 1 .. (IF e.profile = "absent" THEN 0 ELSE 3) |->
        [year |-> 2024, race_name |-> e.race, constructor_name |-> e.constructor,
         driver_id |-> e.driver, lap_number |-> lap,
         lap_time_ms |-> IF e.profile = "uneven" /\ lap = 3 THEN 13
                         ELSE IF e.profile = "quick" /\ lap = 2 THEN 9 ELSE 10,
         is_pit_lap |-> 0, position_on_lap |-> e.driver,
         race_status |-> IF e.profile = "retired" THEN 1 ELSE 0,
         stint_number |-> 1]]

EntryQualifying(e) ==
    [year |-> 2024, race_name |-> e.race, constructor_name |-> e.constructor,
     driver_id |-> e.driver,
     best_lap_time |-> IF e.profile \in {"steady", "absent"} THEN 10
                       ELSE IF e.profile = "uneven" THEN 11
                       ELSE IF e.profile = "quick" THEN 9 ELSE NA]

RECURSIVE AllLaps(_)
AllLaps(entries) ==
    IF entries = <<>> THEN <<>> ELSE EntryLaps(Head(entries)) \o AllLaps(Tail(entries))

Reverse(rows) == [k \in 1 .. Len(rows) |-> rows[Len(rows) + 1 - k]]

\* raw_data of a season: the laps by race and driver, the qualifying rows in that
\* order or in the opposite one
Season(entries, reversed) ==
    LET quali == [k \in 1 .. Len(entries) |-> EntryQualifying(entries[k])]
    IN  [lap_times |-> AllLaps(entries),
         qualify_results |-> IF reversed THEN Reverse(quali) ELSE quali,
         absent |-> {}]

Entry(race, driver, constructor, profile) ==
    [race |-> race, driver |-> driver, constructor |-> constructor, profile |-> profile]

\* the entries of the enumerated seasons: races 1..3, drivers 1..3, with the
\* constructors of ConstructorOf
PaceSlots ==
    <<<<1, 1>>, <<1, 2>>, <<1, 3>>, <<2, 1>>, <<2, 2>>, <<2, 3>>,
      <<3, 1>>, <<3, 2>>, <<3, 3>>>>

\* the entry lists with at most n entries, of the slots k and later
RECURSIVE StartLists(_, _)
StartLists(k, n) ==
    IF k > Len(PaceSlots) \/ n = 0 THEN {<<>>}
    ELSE StartLists(k + 1, n)
         \cup {<<Entry(PaceSlots[k][1], PaceSlots[k][2],
                       ConstructorOf(PaceSlots[k][1], PaceSlots[k][2]), pr)>> \o t :
                  pr \in {"steady", "uneven", "retired"}, t \in StartLists(k + 1, n - 1)}

\* whole seasons.  A quick driver laps in 10, 9, 10 and qualifies in 9.
\* three drivers of one constructor in each of three races
ThreeCarTeam ==
    [k \in 1 .. 9 |->
        Entry(((k - 1) \div 3) + 1, ((k - 1) % 3) + 1, 1,
              IF (k - 1) % 3 = 1 THEN "quick" ELSE "steady")]

\* three drivers of one constructor in race 1, drivers 1 and 3 again in race 2
UnequalStints ==
    <<Entry(1, 1, 1, "steady"), Entry(1, 2, 1, "quick"), Entry(1, 3, 1, "steady"),
      Entry(2, 1, 1, "steady"), Entry(2, 3, 1, "quick")>>

\* driver 1 alone in constructor 1 all season, drivers 2 and 3 in constructor 2
SoloSeason ==
    [k \in 1 .. 9 |->
        Entry(((k - 1) \div 3) + 1, ((k - 1) % 3) + 1, IF (k - 1) % 3 = 0 THEN 1 ELSE 2,
              IF (k - 1) % 3 = 1 THEN "quick" ELSE "steady")]

\* drivers 1 and 2 in constructor 1 all season, driver 3 with them in race 1 only
ShortStint ==
    <<Entry(1, 1, 1, "steady"), Entry(1, 2, 1, "quick"), Entry(1, 3, 1, "steady"),
      Entry(2, 1, 1, "steady"), Entry(2, 2, 1, "quick"),
      Entry(3, 1, 1, "steady"), Entry(3, 2, 1, "quick")>>

\* drivers 1 and 2 in constructor 1 all season, driver 3 with them in qualifying
\* only
QualifiedOnly ==
    [k \in 1 .. 9 |->
        Entry(((k - 1) \div 3) + 1, ((k - 1) % 3) + 1, 1,
              IF (k - 1) % 3 = 2 THEN "absent"
              ELSE IF (k - 1) % 3 = 1 THEN "quick" ELSE "steady")]

\* driver 3 with driver 1 in constructor 1 in race 1, with driver 2 in
\* constructor 2 in race 2
MidSeasonMove ==
    <<Entry(1, 1, 1, "steady"), Entry(1, 3, 1, "quick"),
      Entry(2, 2, 2, "steady"), Entry(2, 3, 2, "quick")>>

ScenarioSeasons ==
    {ThreeCarTeam, UnequalStints, SoloSeason, ShortStint, QualifiedOnly, MidSeasonMove}

\* raw_data without some of its tables: a table that is absent is None
AbsentTables ==
    {[lap_times |-> <<>>, qualify_results |-> <<>>, absent |-> a] :
        a \in SUBSET {"lap_times", "qualify_results"}}

PaceInputs ==
    {Season(e, rev) : e \in StartLists(1, MaxStarts) \cup ScenarioSeasons, rev \in BOOLEAN}
    \cup AbsentTables

PaceInit ==
    /\ pace_pc = "ready" /\ pace_in \in PaceInputs
    /\ pace_laps = pace_in.lap_times /\ pace_qualify = pace_in.qualify_results
    /\ pace_counts = <<>>
    /\ pace_stats = <<>> /\ pace_race = <<>> /\ pace_quali = <<>> /\ pace_out = <<>>
    /\ NormIdle /\ ScIdle /\ TmIdle /\ PerfIdle /\ PnIdle /\ RilIdle /\ PipeIdle /\ FxIdle /\ FqIdle

\* PaceFeatureExtractor.execute
ExecutePace ==
    /\ pace_pc = "ready"
    /\ LET f == _filter_short_stint_drivers(pace_laps, pace_qualify)
           stats == IF f.df_laps = <<>> THEN <<>>
                    ELSE driver_race_stats(remove_invalid_laps(f.df_laps))
           race == driver_with_teammate(stats, f.stint_counts)
           quali == qualifying_pairs(f.df_qualify, f.stint_counts)
       IN  /\ pace_laps' = f.df_laps
           /\ pace_qualify' = f.df_qualify
           /\ pace_counts' = f.stint_counts
           /\ pace_stats' = stats
           /\ pace_race' = race
           /\ pace_quali' = quali
           /\ pace_out' = merge_pace_stats(final_stats(race), agg_stats(quali),
                                           f.df_laps, f.df_qualify)
    /\ pace_pc' = "done"
    /\ UNCHANGED <<pace_in, normVars, scVars, tmVars, perfVars, pnVars, rilVars, pipeVars, fxVars, fqVars>>

PaceNext == ExecutePace

SpecPace == PaceInit /\ [][PaceNext]_vars

(***************************************************************************)
(* The three pairing components together.                                  *)
(***************************************************************************)
PairingInit == TmInit \/ PerfInit \/ PaceInit

PairingNext == TmNext \/ PerfNext \/ PaceNext

SpecPairing == PairingInit /\ [][PairingNext]_vars

\* the two components that compute a diff against the teammate
DiffsInit == TmInit \/ PerfInit

DiffsNext == TmNext \/ PerfNext

SpecDiffs == DiffsInit /\ [][DiffsNext]_vars

\* the negation of a diff that may be missing
NegNA(d) == IF d = NA THEN NA ELSE 0 - d

\* the rows of df_dados of row i's round and constructor
TeamRows(i) ==
    {j \in 1 .. Len(tm_dados) :
        /\ tm_dados[j].round_id = tm_dados[i].round_id
        /\ tm_dados[j].constructor_name = tm_dados[i].constructor_name}

\* the race rows of df_results
RaceRows == {k \in 1 .. Len(perf_results) : perf_results[k].session_type = "R"}

\* the race rows of row i's year, race and constructor
RaceTeamRows(i) ==
    {j \in RaceRows :
        /\ perf_results[j].year = perf_results[i].year
        /\ perf_results[j].race_name = perf_results[i].race_name
        /\ perf_results[j].constructor_name = perf_results[i].constructor_name}

\* the rows of race_merged of the driver and race of row i of df_results
MergedRowsOf(i) ==
    {k \in 1 .. Len(perf_merged) :
        /\ perf_merged[k].year = perf_results[i].year
        /\ perf_merged[k].race_name = perf_results[i].race_name
        /\ perf_merged[k].driver_id = perf_results[i].driver_id}

\* C6: when a constructor has exactly two drivers A and B in an event, one row
\* each, the diff of every paired metric computed for A is the negation of the one
\* computed for B: <m>_diff_tmate of add_colunas_companheiro_equipe, and
\* grid_pos_diff, finish_pos_diff and points_diff of the head-to-head table.
C6_DiffSymmetry ==
    /\ tm_pc = "done" =>
           \A i, j \in 1 .. Len(tm_dados) :
               (/\ TeamRows(i) = {i, j}
                /\ tm_dados[i].driver_ref # tm_dados[j].driver_ref)
               => /\ tm_final[i].driver_ref_tmate = tm_dados[j].driver_ref
                  /\ tm_final[i].metric_diff_tmate = NegNA(tm_final[j].metric_diff_tmate)
    /\ perf_pc = "done" =>
           \A i, j \in RaceRows :
               (/\ RaceTeamRows(i) = {i, j}
                /\ perf_results[i].driver_id # perf_results[j].driver_id)
               => \E a \in MergedRowsOf(i), b \in MergedRowsOf(j) :
                      /\ MergedRowsOf(i) = {a} /\ MergedRowsOf(j) = {b}
                      /\ perf_merged[a].teammate_id = perf_results[j].driver_id
                      /\ perf_merged[a].grid_pos_diff = NegNA(perf_merged[b].grid_pos_diff)
                      /\ perf_merged[a].finish_pos_diff = NegNA(perf_merged[b].finish_pos_diff)
                      /\ perf_merged[a].points_diff = NegNA(perf_merged[b].points_diff)

\* two drivers alone in a constructor at a race, who finished in different places
C6_Witness ==
    /\ perf_pc = "done"
    /\ \E i, j \in RaceRows :
           /\ RaceTeamRows(i) = {i, j}
           /\ perf_results[i].driver_id # perf_results[j].driver_id
           /\ \E a \in MergedRowsOf(i) :
                  /\ perf_merged[a].finish_pos_diff \notin {NA, 0}
                  /\ perf_merged[a].grid_pos_diff \notin {NA, 0}
                  /\ perf_merged[a].points_diff \notin {NA, 0}

\* a table of pairs has one row per (year, race_name, driver_id), never pairing a
\* driver with themself
OneTeammateEach(pairs) ==
    \A h, k \in 1 .. Len(pairs) :
        /\ pairs[k].teammate_id # pairs[k].driver_id
        /\ (/\ pairs[h].year = pairs[k].year
            /\ pairs[h].race_name = pairs[k].race_name
            /\ pairs[h].driver_id = pairs[k].driver_id) => h = k

\* the same of df_stats_companheiro, per (round_id, driver_ref)
OneTmateEach(stats) ==
    \A h, k \in 1 .. Len(stats) :
        /\ stats[k].driver_ref_tmate # stats[k].driver_ref
        /\ (/\ stats[h].round_id = stats[k].round_id
            /\ stats[h].driver_ref = stats[k].driver_ref) => h = k

\* C7: the pairing step leaves at most one teammate per (season, event, driver) and
\* never the driver themself, also with three or more drivers of a constructor in
\* the event: in the race and qualifying paths of PaceFeatureExtractor, in the
\* head-to-head table of PerformanceFeatureExtractor and in
\* add_colunas_companheiro_equipe.
C7_OneTeammatePerDriver ==
    /\ OneTeammateEach(pace_race)
    /\ OneTeammateEach(pace_quali)
    /\ OneTeammateEach(perf_merged)
    /\ OneTmateEach(tm_stats)

\* C7 without the head-to-head table
C7_PaceAndAddColunas ==
    /\ OneTeammateEach(pace_race)
    /\ OneTeammateEach(pace_quali)
    /\ OneTmateEach(tm_stats)

\* race_count of a driver's stint in self.stint_counts, 0 without a row
RaceCountOf(year, constructor, driver) ==
    LET hit == {k \in 1 .. Len(pace_counts) :
                    /\ pace_counts[k].year = year
                    /\ pace_counts[k].constructor_name = constructor
                    /\ pace_counts[k].driver_id = driver}
    IN  IF hit = {} THEN 0 ELSE pace_counts[CHOOSE k \in hit : TRUE].race_count

\* the other drivers of the constructor of row r at its race, among the rows of df
CandidatesOf(df, r) ==
    {df[k].driver_id : k \in {j \in 1 .. Len(df) :
                                 /\ df[j].year = r.year
                                 /\ df[j].race_name = r.race_name
                                 /\ df[j].constructor_name = r.constructor_name
                                 /\ df[j].driver_id # r.driver_id}}

\* c is the candidate with the highest race_count, the first driver_id among equals
IsCanonical(c, cands, r) ==
    /\ c \in cands
    /\ \A o \in cands \ {c} :
           \/ RaceCountOf(r.year, r.constructor_name, c)
                  > RaceCountOf(r.year, r.constructor_name, o)
           \/ /\ RaceCountOf(r.year, r.constructor_name, c)
                     = RaceCountOf(r.year, r.constructor_name, o)
              /\ c < o

\* C8: when more than two drivers share a constructor in an event, the teammate
\* kept for a driver is the candidate with the highest stint race_count, and among
\* equals the one with the first driver_id, whatever the row order of the input
\* tables: in the race path and in the qualifying path of PaceFeatureExtractor.
C8_MostExperiencedTeammate ==
    pace_pc = "done" =>
        /\ \A k \in 1 .. Len(pace_race) :
               IsCanonical(pace_race[k].teammate_id,
                           CandidatesOf(pace_stats, pace_race[k]), pace_race[k])
        /\ \A k \in 1 .. Len(pace_quali) :
               IsCanonical(pace_quali[k].teammate_id,
                           CandidatesOf(pace_qualify, pace_quali[k]), pace_quali[k])

\* C8 of the race path alone
C8_RacePathOnly ==
    pace_pc = "done" =>
        \A k \in 1 .. Len(pace_race) :
            IsCanonical(pace_race[k].teammate_id,
                        CandidatesOf(pace_stats, pace_race[k]), pace_race[k])

\* the race path chose between two candidates of different race_count
C8_RacePathChoice ==
    /\ pace_pc = "done"
    /\ \E k \in 1 .. Len(pace_race) :
           \E c, o \in CandidatesOf(pace_stats, pace_race[k]) :
               /\ c > o
               /\ pace_race[k].teammate_id = c
               /\ RaceCountOf(pace_race[k].year, pace_race[k].constructor_name, c)
                      > RaceCountOf(pace_race[k].year, pace_race[k].constructor_name, o)

\* C9: a driver with no teammate in an event is kept by the pairing step, with
\* missing teammate values, so that the event counts in the driver's season
\* figures that compare with nobody; a driver with no teammate all season still
\* has an output row.
C9_SoloDriverRetained ==
    pace_pc = "done" =>
        /\ \A k \in 1 .. Len(pace_stats) :
               CandidatesOf(pace_stats, pace_stats[k]) = {}
               => \E h \in 1 .. Len(pace_race) :
                      /\ pace_race[h].year = pace_stats[k].year
                      /\ pace_race[h].race_name = pace_stats[k].race_name
                      /\ pace_race[h].driver_id = pace_stats[k].driver_id
                      /\ pace_race[h].teammate_id = NA
        /\ \A k \in 1 .. Len(pace_qualify) :
               CandidatesOf(pace_qualify, pace_qualify[k]) = {}
               => \E h \in 1 .. Len(pace_quali) :
                      /\ pace_quali[h].year = pace_qualify[k].year
                      /\ pace_quali[h].race_name = pace_qualify[k].race_name
                      /\ pace_quali[h].driver_id = pace_qualify[k].driver_id
                      /\ pace_quali[h].teammate_id = NA
        /\ \A k \in 1 .. Len(pace_stats) :
               \E h \in 1 .. Len(pace_out) :
                   /\ pace_out[h].driver_id = pace_stats[k].driver_id
                   /\ pace_out[h].year = pace_stats[k].year

\* the last part of C9 alone: every driver with clean laps has an output row
C9_OutputRowOnly ==
    pace_pc = "done" =>
        \A k \in 1 .. Len(pace_stats) :
            \E h \in 1 .. Len(pace_out) :
                /\ pace_out[h].driver_id = pace_stats[k].driver_id
                /\ pace_out[h].year = pace_stats[k].year

(***************************************************************************)
(* The stint filter, stated on raw_data and df_results alone.              *)
(***************************************************************************)
\* the races of a stint over the two tables of raw_data
RacesOfStint(year, constructor, driver) ==
    LET rows == pace_in.lap_times \o pace_in.qualify_results
    IN  {rows[k].race_name : k \in {j \in 1 .. Len(rows) :
                                       /\ rows[j].year = year
                                       /\ rows[j].constructor_name = constructor
                                       /\ rows[j].driver_id = driver}}

LongStint(r) ==
    Cardinality(RacesOfStint(r.year, r.constructor_name, r.driver_id)) >= MinRaces

\* C11: the stint filter counts the races of every (year, constructor_name,
\* driver_id), keeps a row if and only if the race_count of its stint is at least
\* min_races (3), and hands the same counts to the pairing step.
C11_StintFilter ==
    pace_pc = "done" =>
        /\ pace_laps = SelectSeq(pace_in.lap_times, LongStint)
        /\ pace_qualify = SelectSeq(pace_in.qualify_results, LongStint)
        /\ \A k \in 1 .. Len(pace_in.lap_times) :
               LET r == pace_in.lap_times[k]
               IN  RaceCountOf(r.year, r.constructor_name, r.driver_id)
                       = Cardinality(RacesOfStint(r.year, r.constructor_name, r.driver_id))

\* C11 for the seasons with a stint of min_races races or more
C11_WhenSomeStintIsLong ==
    (pace_pc = "done" /\ \E k \in 1 .. Len(pace_in.lap_times) : LongStint(pace_in.lap_times[k]))
        => /\ pace_laps = SelectSeq(pace_in.lap_times, LongStint)
           /\ pace_qualify = SelectSeq(pace_in.qualify_results, LongStint)

\* a stint of exactly min_races races is kept while a shorter one is dropped
C11_ShortStintDropped ==
    /\ pace_pc = "done"
    /\ pace_laps # <<>>
    /\ Len(pace_laps) < Len(pace_in.lap_times)
    /\ \A k \in 1 .. Len(pace_laps) :
           Cardinality(RacesOfStint(pace_laps[k].year, pace_laps[k].constructor_name,
                                    pace_laps[k].driver_id)) = MinRaces

\* the races of a stint in df_results
ResultRacesOfStint(year, constructor, driver) ==
    {perf_results[k].race_name : k \in {j \in 1 .. Len(perf_results) :
                                           /\ perf_results[j].year = year
                                           /\ perf_results[j].constructor_name = constructor
                                           /\ perf_results[j].driver_id = driver}}

\* no row of a table of pairs has a driver or a teammate whose stint has
\* just one race less than min_races
NoTwoRaceStint(pairs) ==
    \A k \in 1 .. Len(pairs) :
        /\ Cardinality(RacesOfStint(pairs[k].year, pairs[k].constructor_name,
                                    pairs[k].driver_id)) # MinRaces - 1
        /\ Cardinality(RacesOfStint(pairs[k].year, pairs[k].constructor_name,
                                    pairs[k].teammate_id)) # MinRaces - 1

\* C12: a driver with only 2 races for a constructor in a season is no driver and
\* no teammate of that season's teammate comparisons and adds nothing to the pace
\* aggregates: in PaceFeatureExtractor.execute and in the head-to-head table of
\* PerformanceFeatureExtractor.execute.
C12_ShortStintExcluded ==
    /\ NoTwoRaceStint(pace_race)
    /\ NoTwoRaceStint(pace_quali)
    /\ \A k \in 1 .. Len(perf_merged) :
           /\ Cardinality(ResultRacesOfStint(perf_merged[k].year,
                  perf_merged[k].constructor_name, perf_merged[k].driver_id)) # MinRaces - 1
           /\ Cardinality(ResultRacesOfStint(perf_merged[k].year,
                  perf_merged[k].constructor_name, perf_merged[k].teammate_id)) # MinRaces - 1

\* C12 of the Pace tables alone
C12_PaceOnly == NoTwoRaceStint(pace_race) /\ NoTwoRaceStint(pace_quali)

\* C12 of the head-to-head table alone
C12_PerformanceOnly ==
    \A k \in 1 .. Len(perf_merged) :
        /\ Cardinality(ResultRacesOfStint(perf_merged[k].year,
               perf_merged[k].constructor_name, perf_merged[k].driver_id)) # MinRaces - 1
        /\ Cardinality(ResultRacesOfStint(perf_merged[k].year,
               perf_merged[k].constructor_name, perf_merged[k].teammate_id)) # MinRaces - 1

(***************************************************************************)
(* PointsNormalizer (analysis/championship/points_normalizer.py).  A       *)
(* scoring table is a function from positions to points.  A position is an *)
(* int, a float given by twice its value, NaN, None or a string.           *)
(***************************************************************************)
SCORING_MODERN_25 == <<25, 18, 15, 12, 10, 8, 6, 4, 2, 1>>

\* scoring_system: None, an empty table, the six places of an older system, a
\* table that pays down to place 12, and a table with a place worth nothing
NoSystem == [given |-> FALSE, map |-> <<>>]

ScoringSystems ==
    {NoSystem}
    \cup {[given |-> TRUE, map |-> t] :
             t \in {<<>>, <<10, 6, 4, 3, 2, 1>>,
                    <<25, 18, 15, 12, 10, 8, 6, 4, 2, 1, 1, 1>>, <<10, 0, 4>>}}

\* __init__: self.scoring_map; None and an empty table give the default
scoring_map(scoring_system) ==
    IF scoring_system.given /\ scoring_system.map # <<>> THEN scoring_system.map
    ELSE SCORING_MODERN_25

\* int(position): a float is truncated toward zero
IntOf(position) ==
    IF position.kind = "int" THEN position.v
    ELSE IF position.v >= 0 THEN position.v \div 2
    ELSE 0 - ((0 - position.v) \div 2)

\* calculate_points without the test on the place of the fastest lap
calculate_points_any_place(map, position, fastest_lap) ==
    IF position.kind \in {"nan", "none", "str"} THEN FInt(0)
    ELSE LET pos == IntOf(position)
             points == IF pos \in DOMAIN map THEN map[pos] ELSE 0
         IN  IF fastest_lap /\ points > 0 THEN FInt(points + 1) ELSE FInt(points)

calculate_points(map, position, fastest_lap) ==
    IF position.kind \in {"nan", "none", "str"} THEN FInt(0)
    ELSE LET pos == IntOf(position)
             points == IF pos \in DOMAIN map THEN map[pos] ELSE 0
         IN  IF fastest_lap /\ pos <= 10 /\ points > 0 THEN FInt(points + 1)
             ELSE FInt(points)

\* the projection without the guard on actual_rounds
normalize_points_unguarded(target_rounds, current_points, actual_rounds) ==
    FMul(FInt(current_points), FDiv(FInt(target_rounds), FInt(actual_rounds), 0), 0)

normalize_points_by_number_of_rounds(target_rounds, current_points, actual_rounds) ==
    IF actual_rounds <= 0 THEN FInt(0)
    ELSE FMul(FInt(current_points), FDiv(FInt(target_rounds), FInt(actual_rounds), 0), 0)

\* apply_scoring_pandas: positions.map(self.scoring_map).fillna(0), and one point
\* more where fastest_laps is True and the points are above 0; fastest_laps is
\* None or a Series of the index of positions
apply_scoring_pandas(map, positions, fastest_laps) ==
    LET Mapped(position) ==
            IF position.kind = "int" /\ position.v \in DOMAIN map THEN map[position.v]
            ELSE IF position.kind = "float" /\ position.v % 2 = 0
                    /\ position.v \div 2 \in DOMAIN map THEN map[position.v \div 2]
            ELSE 0
        fl_points(i) ==
            IF fastest_laps.given /\ fastest_laps.flags[i] /\ Mapped(positions[i]) > 0
            THEN 1 ELSE 0
    IN  [i \in 1 .. Len(positions) |-> FInt(Mapped(positions[i]) + fl_points(i))]

\* the positions of the calls: the integers -1..MaxPos, the same places as floats,
\* and the three kinds that are no number
Positions ==
    {[kind |-> "int", v |-> n] : n \in -1 .. MaxPos}
    \cup {[kind |-> "float", v |-> 2 * n] : n \in 0 .. MaxPos}
    \cup {[kind |-> k, v |-> 0] : k \in {"nan", "none", "str"}}

\* the elements of a Series of positions: NaN and the integers about the ends of
\* the tables
SeriesPositions ==
    {pos \in Positions :
        \/ pos.kind = "nan"
        \/ pos.kind = "int" /\ pos.v \in {-1, 0, 1, 10, 11, MaxPos}}

\* fastest_laps: None, or a Series of flags with the index of positions
FastestLaps(n) ==
    {[given |-> FALSE, flags |-> <<>>]}
    \cup {[given |-> TRUE, flags |-> flags] : flags \in [1 .. n -> BOOLEAN]}

PointsCalls ==
    {[op |-> "calculate_points", position |-> pos, fastest_lap |-> fl] :
        pos \in Positions, fl \in BOOLEAN}
    \cup {[op |-> "normalize", current_points |-> pts, actual_rounds |-> n] :
             pts \in {0, 3, 50, 100}, n \in {-1, 0, 1, 5, 10, 24}}
    \cup UNION {{[op |-> "apply_scoring_pandas", positions |-> ps, fastest_laps |-> fls] :
                     fls \in FastestLaps(Len(ps))} :
                        ps \in SeqsUpTo(SeriesPositions, MaxSeries)}

PnInit ==
    /\ pn_pc = "ready"
    /\ \E sys \in ScoringSystems : pn_map = scoring_map(sys)
    /\ pn_target \in {10, 24}
    /\ pn_call \in PointsCalls
    /\ pn_out = NaN
    /\ NormIdle /\ ScIdle /\ TmIdle /\ PerfIdle /\ PaceIdle /\ RilIdle /\ PipeIdle /\ FxIdle /\ FqIdle

CalculatePoints ==
    /\ pn_pc = "ready" /\ pn_call.op = "calculate_points"
    /\ pn_out' = calculate_points(pn_map, pn_call.position, pn_call.fastest_lap)
    /\ pn_pc' = "done"
    /\ UNCHANGED <<pn_map, pn_target, pn_call, normVars, scVars, tmVars, perfVars, paceVars, rilVars, pipeVars, fxVars, fqVars>>

NormalizePoints ==
    /\ pn_pc = "ready" /\ pn_call.op = "normalize"
    /\ pn_out' = normalize_points_by_number_of_rounds(pn_target, pn_call.current_points,
                                                      pn_call.actual_rounds)
    /\ pn_pc' = "done"
    /\ UNCHANGED <<pn_map, pn_target, pn_call, normVars, scVars, tmVars, perfVars, paceVars, rilVars, pipeVars, fxVars, fqVars>>

ApplyScoringPandas ==
    /\ pn_pc = "ready" /\ pn_call.op = "apply_scoring_pandas"
    /\ pn_out' = apply_scoring_pandas(pn_map, pn_call.positions, pn_call.fastest_laps)
    /\ pn_pc' = "done"
    /\ UNCHANGED <<pn_map, pn_target, pn_call>>
    /\ UNCHANGED <<normVars, scVars, tmVars, perfVars, paceVars, rilVars, pipeVars, fxVars, fqVars>>

PnNext == CalculatePoints \/ NormalizePoints \/ ApplyScoringPandas

SpecPoints == PnInit /\ [][PnNext]_vars

\* the place of a position that is a whole number, NA for any other position
PlaceOf(position) ==
    IF position.kind = "int" THEN position.v
    ELSE IF position.kind = "float" /\ position.v % 2 = 0 THEN position.v \div 2
    ELSE NA

TableValue(position) ==
    IF PlaceOf(position) \in DOMAIN pn_map THEN pn_map[PlaceOf(position)] ELSE 0

\* C13: calculate_points returns the scoring-table value of the position, 0 for a
\* position that is not in the table or is missing, and one point more only when
\* fastest_lap is True, the position is at most 10 and the table value is above 0;
\* with the default table (1, True) gives 26, (11, True) gives 0 and None gives 0.
C13_CalculatePoints ==
    (pn_pc = "done" /\ pn_call.op = "calculate_points") =>
        /\ pn_out = FInt(TableValue(pn_call.position)
                         + (IF /\ pn_call.fastest_lap
                               /\ PlaceOf(pn_call.position) # NA
                               /\ PlaceOf(pn_call.position) <= 10
                               /\ TableValue(pn_call.position) > 0
                            THEN 1 ELSE 0))
        /\ pn_map = SCORING_MODERN_25 =>
               /\ (PlaceOf(pn_call.position) = 1 /\ pn_call.fastest_lap) => pn_out = FInt(26)
               /\ (PlaceOf(pn_call.position) = 11 /\ pn_call.fastest_lap) => pn_out = FInt(0)
               /\ pn_call.position.kind = "none" => pn_out = FInt(0)

\* the fastest lap of a driver in place 11, which a table pays
C13_Witness ==
    /\ pn_pc = "done" /\ pn_call.op = "calculate_points"
    /\ pn_call.fastest_lap
    /\ PlaceOf(pn_call.position) = 11
    /\ TableValue(pn_call.position) > 0
    /\ pn_out = FInt(TableValue(pn_call.position))

\* C14: normalize_points_by_number_of_rounds returns current_points x target_rounds
\* / actual_rounds when actual_rounds > 0 and 0 for every actual_rounds <= 0; with
\* target_rounds 24, (100, 10) gives 240 and (50, 0) gives 0.
C14_NormalizeByRounds ==
    (pn_pc = "done" /\ pn_call.op = "normalize") =>
        /\ pn_call.actual_rounds > 0 =>
               pn_out = FRat(pn_call.current_points * pn_target, pn_call.actual_rounds)
        /\ pn_call.actual_rounds <= 0 => pn_out = FInt(0)
        /\ (pn_target = 24 /\ pn_call.current_points = 100 /\ pn_call.actual_rounds = 10)
               => pn_out = FInt(240)
        /\ (pn_target = 24 /\ pn_call.current_points = 50 /\ pn_call.actual_rounds = 0)
               => pn_out = FInt(0)

\* points of a season without a round
C14_Witness ==
    /\ pn_pc = "done" /\ pn_call.op = "normalize"
    /\ pn_call.actual_rounds = 0 /\ pn_call.current_points = 50 /\ pn_target = 24
    /\ pn_out = FInt(0)

(***************************************************************************)
(* remove_invalid_laps with its toggles (modules/features/utils.py).  The  *)
(* lap table has the rows [index, year, race_name, driver_id, lap_number,  *)
(* lap_time_ms, is_pit_lap, position_on_lap, race_status] and a set of     *)
(* column names; a row's field of a column the table does not have is      *)
(* never read.  driver_id stands for driver_full_name.  The columns the    *)
(* detector adds to the table are left out of the result.                  *)
(***************************************************************************)
LapColumns ==
    {"year", "race_name", "driver_full_name", "lap_number", "lap_time_ms",
     "is_pit_lap", "position_on_lap", "race_status"}

\* the statements of _identify_sc_laps that read columns, in the order of the code:
\* the query, the two groupby keys and the column of the first groupby, the
\* third key and the column of the second groupby
DetectorReads ==
    <<{"is_pit_lap", "lap_number"}, {"year"}, {"race_name"}, {"lap_time_ms"},
      {"driver_full_name"}, {"position_on_lap"}>>

\* the columns the error of _identify_sc_laps may name: the missing columns of
\* the first statement that reads a missing column; none when it does not raise
detector_error(columns) ==
    LET failing == {k \in 1 .. Len(DetectorReads) : DetectorReads[k] \ columns # {}}
    IN  IF failing = {} THEN {} ELSE DetectorReads[SetMin(failing)] \ columns

\* the error of remove_invalid_laps when remove_first_lap never raised
raise_candidates_no_first_lap(columns, t) ==
    IF t.remove_sc_laps /\ detector_error(columns) # {} THEN detector_error(columns)
    ELSE IF t.remove_pit_laps /\ "is_pit_lap" \notin columns THEN {"is_pit_lap"}
    ELSE IF t.remove_dnf_races /\ "race_status" \notin columns THEN {"race_status"}
    ELSE {}

\* the columns the error of remove_invalid_laps may name, none when it returns
raise_candidates(columns, t) ==
    IF t.remove_sc_laps /\ detector_error(columns) # {} THEN detector_error(columns)
    ELSE IF t.remove_pit_laps /\ "is_pit_lap" \notin columns THEN {"is_pit_lap"}
    ELSE IF t.remove_first_lap /\ "lap_number" \notin columns THEN {"lap_number"}
    ELSE IF t.remove_dnf_races /\ "race_status" \notin columns THEN {"race_status"}
    ELSE {}

\* the rows of df at the places S, in row order
RowsAt(df, S) ==
    LET keep == InRowOrder(S) IN [k \in 1 .. Len(keep) |-> df[keep[k]]]

\* _identify_sc_laps(df_filtrado) and query("is_safety_car_lap == False")
without_sc_laps(df) ==
    LET flagged == _identify_sc_laps(ScColumns(df))
    IN  RowsAt(df, {i \in 1 .. Len(df) : ~flagged[i].is_safety_car_lap})

without_pit_laps(df) == RowsAt(df, {i \in 1 .. Len(df) : df[i].is_pit_lap = 0})

without_first_lap(df) == RowsAt(df, {i \in 1 .. Len(df) : df[i].lap_number > 1})

without_dnf_races(df) == RowsAt(df, {i \in 1 .. Len(df) : df[i].race_status = 0})

\* the filters with the detector run after the pit laps and the first laps are gone
df_filtrado_sc_late(df, t) ==
    LET pit == IF t.remove_pit_laps THEN without_pit_laps(df) ELSE df
        first == IF t.remove_first_lap THEN without_first_lap(pit) ELSE pit
        sc == IF t.remove_sc_laps THEN without_sc_laps(first) ELSE first
    IN  IF t.remove_dnf_races THEN without_dnf_races(sc) ELSE sc

\* df_filtrado of remove_invalid_laps when no statement raises
df_filtrado(df, t) ==
    LET sc == IF t.remove_sc_laps THEN without_sc_laps(df) ELSE df
        pit == IF t.remove_pit_laps THEN without_pit_laps(sc) ELSE sc
        first == IF t.remove_first_lap THEN without_first_lap(pit) ELSE pit
    IN  IF t.remove_dnf_races THEN without_dnf_races(first) ELSE first

Raised(column) == [raised |-> TRUE, column |-> column, df |-> <<>>]
Returned(df) == [raised |-> FALSE, column |-> "", df |-> df]

Toggles ==
    [remove_pit_laps : BOOLEAN, remove_first_lap : BOOLEAN,
     remove_sc_laps : BOOLEAN, remove_dnf_races : BOOLEAN]

RilChoices ==
    [driver_id : {1, 2}, lap_time_ms : {5, 10}, is_pit_lap : {0, 1},
     position_on_lap : {1, 2 + Tolerance}]

\* the rows of the choices: one race, lap_number counting the driver's laps so
\* far, race_status by driver
RilTable(choices, status) ==
    [i \in 1 .. Len(choices) |->
        [index |-> i - 1, year |-> 2024, race_name |-> 1,
         driver_id |-> choices[i].driver_id,
         lap_number |-> Cardinality({j \in 1 .. i :
                                        choices[j].driver_id = choices[i].driver_id}),
         lap_time_ms |-> choices[i].lap_time_ms, is_pit_lap |-> choices[i].is_pit_lap,
         position_on_lap |-> choices[i].position_on_lap,
         race_status |-> status[choices[i].driver_id]]]

Lap(driver, time, pit) ==
    [driver_id |-> driver, lap_time_ms |-> time, is_pit_lap |-> pit, position_on_lap |-> 1]

\* driver 1 laps in 5, 5, driver 2 sets out, driver 1 laps in 10: the slow lap
\* follows a first lap, which follows a lap at the usual pace
SlowAfterFirstLap == <<Lap(1, 5, 0), Lap(1, 5, 0), Lap(2, 5, 0), Lap(1, 10, 0)>>

\* one driver: a first lap, a lap in 5, a pit lap, a lap in 10, a lap in 5
SlowAfterPitLap == <<Lap(1, 5, 0), Lap(1, 5, 0), Lap(1, 5, 1), Lap(1, 10, 0), Lap(1, 5, 0)>>

RilScenarios == {SlowAfterFirstLap, SlowAfterPitLap}

\* the tables of at most n enumerated rows, and the scenarios
RilTables(n) ==
    {RilTable(c, st) : c \in SeqsUpTo(RilChoices, n) \cup RilScenarios,
                       st \in [{1, 2} -> {0, 1}]}

\* the sets of columns of a table that lacks some: any one column, or is_pit_lap
\* with one other column
ColumnSets ==
    {LapColumns \ {c} : c \in LapColumns}
    \cup {LapColumns \ {"is_pit_lap", c} : c \in {"lap_number", "race_status", "year"}}

RilInputs(n) ==
    {[df |-> df, columns |-> LapColumns, toggles |-> t] : df \in RilTables(n), t \in Toggles}
    \cup {[df |-> RilTable(c, [d \in {1, 2} |-> 0]), columns |-> cols, toggles |-> t] :
             c \in {<<>>, SlowAfterPitLap}, cols \in ColumnSets, t \in Toggles}

RilInit ==
    /\ ril_pc = "ready" /\ ril_in \in RilInputs(MaxLapRows) /\ ril_out = <<>>
    /\ NormIdle /\ ScIdle /\ TmIdle /\ PerfIdle /\ PaceIdle /\ PnIdle /\ PipeIdle /\ FxIdle /\ FqIdle

RemoveInvalidLaps ==
    /\ ril_pc = "ready"
    /\ LET errors == raise_candidates(ril_in.columns, ril_in.toggles)
       IN  IF errors # {} THEN \E column \in errors : ril_out' = Raised(column)
           ELSE ril_out' = Returned(df_filtrado(ril_in.df, ril_in.toggles))
    /\ ril_pc' = "done"
    /\ UNCHANGED <<ril_in, normVars, scVars, tmVars, perfVars, paceVars, pnVars, pipeVars, fxVars, fqVars>>

RilNext == RemoveInvalidLaps

SpecLaps == RilInit /\ [][RilNext]_vars

\* the columns an enabled toggle reads
RequiredColumns(t) ==
    (IF t.remove_pit_laps THEN {"is_pit_lap"} ELSE {})
    \cup (IF t.remove_dnf_races THEN {"race_status"} ELSE {})
    \cup (IF t.remove_first_lap THEN {"lap_number"} ELSE {})
    \cup (IF t.remove_sc_laps THEN LapColumns \ {"race_status"} ELSE {})

\* C15: when a column that an enabled toggle of remove_invalid_laps requires is
\* absent (is_pit_lap for remove_pit_laps, race_status for remove_dnf_races,
\* lap_number for remove_first_lap, the detector's columns for remove_sc_laps), the
\* call raises, the error names a missing column that an enabled toggle requires,
\* and no table is returned.
C15_MissingColumnRaises ==
    (ril_pc = "done" /\ RequiredColumns(ril_in.toggles) \ ril_in.columns # {}) =>
        /\ ril_out.raised
        /\ ril_out.column \in RequiredColumns(ril_in.toggles) \ ril_in.columns
        /\ ril_out.df = <<>>

\* remove_first_lap alone on a table of laps without lap_number
C15_Witness ==
    /\ ril_pc = "done"
    /\ ril_in.df # <<>>
    /\ ril_in.columns = LapColumns \ {"lap_number"}
    /\ ril_in.toggles.remove_first_lap
    /\ ~ril_in.toggles.remove_sc_laps /\ ~ril_in.toggles.remove_pit_laps
    /\ ~ril_in.toggles.remove_dnf_races
    /\ ril_out = Raised("lap_number")

\* row i of the table of the call passes every enabled filter, the caution flags
\* being those of the detector on the whole table
PassesFilters(i) ==
    LET t == ril_in.toggles
        flagged == _identify_sc_laps(ScColumns(ril_in.df))
    IN  /\ t.remove_sc_laps => ~flagged[i].is_safety_car_lap
        /\ t.remove_pit_laps => ril_in.df[i].is_pit_lap = 0
        /\ t.remove_first_lap => ril_in.df[i].lap_number > 1
        /\ t.remove_dnf_races => ril_in.df[i].race_status = 0

Extractors == <<"pace", "performance", "reliability">>

FileOf(extractor) ==
    IF extractor = "pace" THEN "pace_features.csv"
    ELSE IF extractor = "performance" THEN "performance_features.csv"
    ELSE "reliability_features.csv"

ExecuteRaises == [raises |-> TRUE, rows |-> 0]
ExecuteReturns(n) == [raises |-> FALSE, rows |-> n]

ExecuteOutcomes == {ExecuteRaises} \cup {ExecuteReturns(n) : n \in 0 .. MaxVal}

PipelineRuns ==
    [db_ok : BOOLEAN, load_ok : BOOLEAN,
     pace : ExecuteOutcomes, performance : ExecuteOutcomes, reliability : ExecuteOutcomes]

\* a step whose exception is not caught
extract_uncaught(outcome) ==
    IF outcome.raises THEN [df |-> NA, error |-> TRUE]
    ELSE [df |-> outcome.rows, error |-> FALSE]

\* try: df = ext.execute()  except Exception: df = pd.DataFrame()
extract(outcome) ==
    IF outcome.raises THEN [df |-> 0, error |-> FALSE]
    ELSE [df |-> outcome.rows, error |-> FALSE]

PipeInit ==
    /\ pipe_pc = "init_db" /\ pipe_in \in PipelineRuns
    /\ pipe_df = [e \in {} |-> 0] /\ pipe_files = {} /\ pipe_error = FALSE
    /\ NormIdle /\ ScIdle /\ TmIdle /\ PerfIdle /\ PaceIdle /\ PnIdle /\ RilIdle /\ FxIdle /\ FqIdle

\* db = DbReader(), or the return on its failure
InitDb ==
    /\ pipe_pc = "init_db"
    /\ pipe_pc' = IF pipe_in.db_ok THEN "load" ELSE "returned"
    /\ UNCHANGED <<pipe_in, pipe_df, pipe_files, pipe_error>>
    /\ UNCHANGED <<normVars, scVars, tmVars, perfVars, paceVars, pnVars, rilVars, fxVars, fqVars>>

\* the three queries, or the return on their failure
LoadData ==
    /\ pipe_pc = "load"
    /\ pipe_pc' = IF pipe_in.load_ok THEN "pace" ELSE "returned"
    /\ UNCHANGED <<pipe_in, pipe_df, pipe_files, pipe_error>>
    /\ UNCHANGED <<normVars, scVars, tmVars, perfVars, paceVars, pnVars, rilVars, fxVars, fqVars>>

\* one extraction step: the extractor at the step, the step after it
ExtractStep(extractor, next) ==
    /\ pipe_pc = extractor
    /\ LET r == extract(pipe_in[extractor])
       IN  IF r.error
           THEN /\ pipe_error' = TRUE /\ pipe_pc' = "returned"
                /\ UNCHANGED pipe_df
           ELSE /\ pipe_df' = [e \in DOMAIN pipe_df \cup {extractor} |->
                                  IF e = extractor THEN r.df ELSE pipe_df[e]]
                /\ pipe_pc' = next
                /\ UNCHANGED pipe_error
    /\ UNCHANGED <<pipe_in, pipe_files>>
    /\ UNCHANGED <<normVars, scVars, tmVars, perfVars, paceVars, pnVars, rilVars, fxVars, fqVars>>

ExtractPace == ExtractStep("pace", "performance")

ExtractPerformance == ExtractStep("performance", "reliability")

ExtractReliability == ExtractStep("reliability", "save")

\* if not df.empty: df.to_csv(...), for the three tables
SaveResults ==
    /\ pipe_pc = "save"
    /\ pipe_files' = {[name |-> FileOf(e), rows |-> pipe_df[e]] :
                         e \in {x \in DOMAIN pipe_df : pipe_df[x] > 0}}
    /\ pipe_pc' = "done"
    /\ UNCHANGED <<pipe_in, pipe_df, pipe_error>>
    /\ UNCHANGED <<normVars, scVars, tmVars, perfVars, paceVars, pnVars, rilVars, fxVars, fqVars>>

PipeNext ==
    \/ InitDb
    \/ LoadData
    \/ ExtractPace
    \/ ExtractPerformance
    \/ ExtractReliability
    \/ SaveResults

SpecPipeline == PipeInit /\ [][PipeNext]_vars

\* the extractors whose execute() was called: those before the current step
Executed ==
    IF pipe_pc \in {"performance"} THEN {"pace"}
    ELSE IF pipe_pc = "reliability" THEN {"pace", "performance"}
    ELSE IF pipe_pc \in {"save", "done"} THEN {"pace", "performance", "reliability"}
    ELSE {}

AllExtractors == {Extractors[k] : k \in 1 .. Len(Extractors)}

\* C16: whichever of the Pace, Performance and Reliability extractors raise in
\* execute, no exception leaves run_pipeline, a run whose data was loaded goes on
\* to every later extractor and to its end, and at the end the file of every
\* extractor that returned a non-empty table is written (with the table's rows)
\* and no file is written for an extractor that raised.
C16_FailuresIsolated ==
    /\ ~pipe_error
    /\ (pipe_pc = "returned") => ~(pipe_in.db_ok /\ pipe_in.load_ok)
    /\ (pipe_pc \notin {"returned", "done"}) => ENABLED PipeNext
    /\ (pipe_pc \in {"performance", "reliability", "save", "done"}) =>
           DOMAIN pipe_df = Executed
    /\ (pipe_pc = "done") =>
           \A e \in AllExtractors :
               /\ (~pipe_in[e].raises /\ pipe_in[e].rows > 0) =>
                      [name |-> FileOf(e), rows |-> pipe_in[e].rows] \in pipe_files
               /\ pipe_in[e].raises => \A f \in pipe_files : f.name # FileOf(e)
               /\ \A f \in pipe_files : f.name = FileOf(e) => f.rows = pipe_in[e].rows

\* Pace and Reliability raised, Performance returned rows: one file
C16_Witness ==
    /\ pipe_pc = "done"
    /\ pipe_in.pace.raises /\ pipe_in.reliability.raises
    /\ ~pipe_in.performance.raises /\ pipe_in.performance.rows > 0
    /\ pipe_files = {[name |-> "performance_features.csv", rows |-> pipe_in.performance.rows]}

(***************************************************************************)
(* ReliabilityFeatureExtractor and ExperienceFeatureExtractor              *)
(* (modules/features/reliability, modules/features/experience).            *)
(* df_results has the rows [year, round_id, race_name, constructor_name,   *)
(* driver_id, starting_position, finishing_position, race_status,          *)
(* session_type]; the name columns of the metadata are left out.           *)
(***************************************************************************)
\* pd.to_numeric(race_status, errors='coerce').fillna(-1)
StatusOf(r) == IF r.race_status = NA THEN 0 - 1 ELSE r.race_status

\* a DNF as anything but a finish on the lead lap
is_dnf_but_status_0(r) == StatusOf(r) # 0

is_dnf(r) == StatusOf(r) \notin {0, 1}
is_mechanical_dnf(r) == StatusOf(r) = 11
is_accident_dnf(r) == StatusOf(r) = 10

\* the (driver_id, year) groups of a table, in sorted order
DriverYears(df) == SortKeys({<<df[k].driver_id, df[k].year>> : k \in 1 .. Len(df)})

\* the rows of a group, in row order
GroupOf(df, key) ==
    LET InGroup(r) == r.driver_id = key[1] /\ r.year = key[2]
    IN  SelectSeq(df, InGroup)

\* ReliabilityFeatureExtractor.execute after its guard: agg with the rates,
\* left-merged with the metadata
reliability_agg(df_results) ==
    LET keys == DriverYears(df_results)
        Row(key) ==
            LET g == GroupOf(df_results, key)
                total_races == Len(g)
                total_dnf == Len(SelectSeq(g, is_dnf))
                total_mech_dnf == Len(SelectSeq(g, is_mechanical_dnf))
                total_accident_dnf == Len(SelectSeq(g, is_accident_dnf))
            IN  [driver_id |-> key[1], year |-> key[2],
                 constructor_name |-> constructor_mode(df_results, key[1], key[2]),
                 total_races |-> total_races, total_dnf |-> total_dnf,
                 total_mech_dnf |-> total_mech_dnf,
                 total_accident_dnf |-> total_accident_dnf,
                 dnf_rate |-> FRat(total_dnf, total_races),
                 mechanical_dnf_rate |-> FRat(total_mech_dnf, total_races),
                 accident_dnf_rate |-> FRat(total_accident_dnf, total_races)]
    IN  [k \in 1 .. Len(keys) |-> Row(keys[k])]

is_win(r) == r.finishing_position = 1
is_podium(r) == r.finishing_position # NA /\ r.finishing_position <= 3
is_pole(r) == r.starting_position = 1

\* yearly_stats of one (driver_id, year) group
yearly_stats(df, key) ==
    LET g == GroupOf(df, key)
    IN  [driver_id |-> key[1], year |-> key[2], yearly_races |-> Len(g),
         yearly_wins |-> Len(SelectSeq(g, is_win)),
         yearly_podiums |-> Len(SelectSeq(g, is_podium)),
         yearly_poles |-> Len(SelectSeq(g, is_pole))]

\* the yearly rows without the grouping by year: one row per result
career_per_result(df_results) ==
    [k \in 1 .. Len(df_results) |->
        [driver_id |-> df_results[k].driver_id, year |-> df_results[k].year,
         constructor_name |->
             constructor_mode(df_results, df_results[k].driver_id, df_results[k].year),
         career_races |-> k, career_wins |-> 0, career_podiums |-> 0,
         career_poles |-> 0, years_in_f1 |-> k]]

\* the yearly rows without the cumulative sums: each season on its own
career_stats_per_season(df_results) ==
    LET keys == DriverYears(df_results)
        Row(key) ==
            LET ys == yearly_stats(df_results, key)
            IN  [driver_id |-> key[1], year |-> key[2],
                 constructor_name |-> constructor_mode(df_results, key[1], key[2]),
                 career_races |-> ys.yearly_races, career_wins |-> ys.yearly_wins,
                 career_podiums |-> ys.yearly_podiums, career_poles |-> ys.yearly_poles,
                 years_in_f1 |-> 1]
    IN  [k \in 1 .. Len(keys) |-> Row(keys[k])]

\* ExperienceFeatureExtractor.execute after its guard: the cumulative sums of the
\* yearly rows of a driver up to each year, left-merged with the metadata
career_stats(df_results) ==
    LET keys == DriverYears(df_results)
        Row(key) ==
            LET upto == {k \in 1 .. Len(keys) : keys[k][1] = key[1] /\ keys[k][2] <= key[2]}
                ys == [k \in 1 .. Cardinality(upto) |->
                          yearly_stats(df_results, keys[InRowOrder(upto)[k]])]
            IN  [driver_id |-> key[1], year |-> key[2],
                 constructor_name |-> constructor_mode(df_results, key[1], key[2]),
                 career_races |-> SumSeq(Col(ys, "yearly_races")),
                 career_wins |-> SumSeq(Col(ys, "yearly_wins")),
                 career_podiums |-> SumSeq(Col(ys, "yearly_podiums")),
                 career_poles |-> SumSeq(Col(ys, "yearly_poles")),
                 years_in_f1 |-> Len(ys)]
    IN  [k \in 1 .. Len(keys) |-> Row(keys[k])]

\* the results of the model: years 2023 and 2024, rounds 1 and 2, drivers 1 and 3
\* with the constructors of ConstructorOf (driver 3 changes constructor between
\* the rounds of a year)
FxSlots ==
    <<<<2023, 1, 1>>, <<2023, 1, 3>>, <<2023, 2, 1>>, <<2023, 2, 3>>,
      <<2024, 1, 1>>, <<2024, 1, 3>>, <<2024, 2, 1>>, <<2024, 2, 3>>>>

Outcomes == {"win", "lapped", "accident", "mechanical", "unknown"}

SeasonRow(slot, outcome) ==
    [year |-> slot[1], round_id |-> slot[2], race_name |-> slot[2],
     constructor_name |-> ConstructorOf(slot[2], slot[3]), driver_id |-> slot[3],
     starting_position |-> IF outcome \in {"win", "mechanical"} THEN 1 ELSE 2,
     finishing_position |-> IF outcome = "win" THEN 1
                            ELSE IF outcome = "lapped" THEN 3 ELSE NA,
     race_status |-> IF outcome = "win" THEN 0
                     ELSE IF outcome = "lapped" THEN 1
                     ELSE IF outcome = "accident" THEN 10
                     ELSE IF outcome = "mechanical" THEN 11 ELSE NA,
     session_type |-> "R"]

\* the row of driver 1 for the first qualifying segment of round 1 of 2024, which
\* the driver ended first
QualifyingRow == [SeasonRow(<<2024, 1, 1>>, "win") EXCEPT !.session_type = "Q1"]

\* the tables with at most n rows, of the slots k and later
RECURSIVE SeasonTables(_, _)
SeasonTables(k, n) ==
    IF k > Len(FxSlots) \/ n = 0 THEN {<<>>}
    ELSE SeasonTables(k + 1, n)
         \cup {<<SeasonRow(FxSlots[k], o)>> \o t :
                  o \in Outcomes, t \in SeasonTables(k + 1, n - 1)}

FxInit ==
    \* race rows by year and round; the small tables from the second round of 2023
    \* on also with a qualifying row, and also in the opposite row order
    /\ fx_results \in
           SeasonTables(1, MaxEntries)
           \cup {t \o <<QualifyingRow>> : t \in SeasonTables(3, MaxVal)}
           \cup {Reverse(t) : t \in SeasonTables(3, MaxVal)}
    /\ fx_pc = "ready" /\ fx_class \in {"Reliability", "Experience"}
    /\ fx_none \in {none \in BOOLEAN : none => fx_results = <<>>}
    /\ fx_out = <<>>
    /\ NormIdle /\ ScIdle /\ TmIdle /\ PerfIdle /\ PaceIdle /\ PnIdle /\ RilIdle /\ PipeIdle /\ FqIdle

\* ReliabilityFeatureExtractor.execute
ExecuteReliability ==
    /\ fx_pc = "ready" /\ fx_class = "Reliability"
    /\ fx_out' = IF fx_none \/ fx_results = <<>> THEN <<>> ELSE reliability_agg(fx_results)
    /\ fx_pc' = "done"
    /\ UNCHANGED <<fx_class, fx_none, fx_results>>
    /\ UNCHANGED <<normVars, scVars, tmVars, perfVars, paceVars, pnVars, rilVars, pipeVars, fqVars>>

\* ExperienceFeatureExtractor.execute
ExecuteExperience ==
    /\ fx_pc = "ready" /\ fx_class = "Experience"
    /\ fx_out' = IF fx_none \/ fx_results = <<>> THEN <<>> ELSE career_stats(fx_results)
    /\ fx_pc' = "done"
    /\ UNCHANGED <<fx_class, fx_none, fx_results>>
    /\ UNCHANGED <<normVars, scVars, tmVars, perfVars, paceVars, pnVars, rilVars, pipeVars, fqVars>>

FxNext == ExecuteReliability \/ ExecuteExperience

SpecResults == FxInit /\ [][FxNext]_vars

(***************************************************************************)
(* The four extractors together, and the components on empty input.        *)
(***************************************************************************)
ExtractorsInit == PerfInit \/ PaceInit \/ FxInit

ExtractorsNext == PerfNext \/ PaceNext \/ FxNext

SpecExtractors == ExtractorsInit /\ [][ExtractorsNext]_vars

\* results without a race row: qualifying rows only
RECURSIVE QualifyingTables(_, _)
QualifyingTables(k, n) ==
    IF k > Len(PerfSlots) \/ n = 0 THEN {<<>>}
    ELSE QualifyingTables(k + 1, n)
         \cup {<<ResultRow(PerfSlots[k][1], PerfSlots[k][2], st, fin, "Q")>> \o t :
                  st \in {1, 2}, fin \in {1, 2, NA}, t \in QualifyingTables(k + 1, n - 1)}

\* each component on an input without rows: tables that are None or have no
\* row, results without a race row, lap tables without a row
EmptyInit ==
    \/ /\ perf_pc = "ready" /\ perf_results \in QualifyingTables(1, MaxEntries)
       /\ perf_none \in {none \in BOOLEAN : none => perf_results = <<>>}
       /\ perf_merged = <<>> /\ perf_out = <<>>
       /\ NormIdle /\ ScIdle /\ TmIdle /\ PaceIdle /\ PnIdle /\ RilIdle /\ PipeIdle /\ FxIdle /\ FqIdle
    \/ PaceInit /\ pace_in \in AbsentTables
    \/ FxInit /\ fx_results = <<>>
    \/ RilInit /\ ril_in.df = <<>> /\ ril_in.columns = LapColumns
    \/ ScInit /\ sc_laps = <<>>

EmptyNext == PerfNext \/ PaceNext \/ FxNext \/ RilNext \/ ScNext

SpecEmpty == EmptyInit /\ [][EmptyNext]_vars

NoRaceRow(df_results) == \A k \in 1 .. Len(df_results) : ~IsRace(df_results[k])

SameDriverYear(a, b) == a.driver_id = b.driver_id /\ a.year = b.year

OneRowPerDriverYear(out) ==
    \A i, j \in 1 .. Len(out) : SameDriverYear(out[i], out[j]) => i = j

\* C18: the table an extractor returns has at most one row per (driver_id,
\* year), for the Pace, Performance, Reliability and Experience extractors and
\* every input, a driver with two constructors in a season and a driver with
\* qualifying rows but no lap rows included.
C18_OneRowPerDriverYear ==
    /\ OneRowPerDriverYear(perf_out)
    /\ OneRowPerDriverYear(pace_out)
    /\ OneRowPerDriverYear(fx_out)

\* the career table of a driver who drove for two constructors in a season
C18_Witness ==
    /\ fx_pc = "done" /\ fx_class = "Experience"
    /\ \E i, j \in 1 .. Len(fx_results) :
           /\ SameDriverYear(fx_results[i], fx_results[j])
           /\ fx_results[i].constructor_name # fx_results[j].constructor_name
           /\ \E k \in 1 .. Len(fx_out) : SameDriverYear(fx_out[k], fx_results[i])

\* the cases of the other extractors are reached: two constructors in a season
\* in the Performance and Pace tables, a driver of the qualifying table only
C18_TwoConstructorsPerformance ==
    ~ /\ perf_pc = "done"
      /\ \E i, j \in 1 .. Len(perf_results) :
             /\ IsRace(perf_results[i]) /\ IsRace(perf_results[j])
             /\ SameDriverYear(perf_results[i], perf_results[j])
             /\ perf_results[i].constructor_name # perf_results[j].constructor_name
             /\ \E k \in 1 .. Len(perf_out) : SameDriverYear(perf_out[k], perf_results[i])

C18_TwoConstructorsPace ==
    ~ /\ pace_pc = "done"
      /\ \E i, j \in 1 .. Len(pace_laps) :
             /\ SameDriverYear(pace_laps[i], pace_laps[j])
             /\ pace_laps[i].constructor_name # pace_laps[j].constructor_name
             /\ \E k \in 1 .. Len(pace_out) : SameDriverYear(pace_out[k], pace_laps[i])

C18_QualifyingOnlyDriver ==
    ~ /\ pace_pc = "done"
      /\ \E q \in 1 .. Len(pace_qualify) :
             /\ \A l \in 1 .. Len(pace_laps) : pace_laps[l].driver_id # pace_qualify[q].driver_id
             /\ \E k \in 1 .. Len(pace_out) : SameDriverYear(pace_out[k], pace_qualify[q])

\* the series of the call has one value throughout, or clipping at 0 sigma
\* leaves one value throughout
AllEqualSeries ==
    \/ \A i, j \in 1 .. Len(norm_in.series) : norm_in.series[i] = norm_in.series[j]
    \/ norm_in.clip_outliers_sigma.set /\ norm_in.clip_outliers_sigma.k = 0

AllAtMinimum ==
    /\ Len(norm_out) = Len(norm_in.series)
    /\ \A i \in 1 .. Len(norm_out) :
           FEq(norm_out[i], FInt(norm_in.target_range[1]), NormT)

\* C19: robust_normalize maps every element of a series whose values are all
\* equal (standard deviation 0, or all equal after clipping) to the minimum of
\* target_range, for every length >= 1 and either value of lower_is_better.
C19_ConstantSeriesAtMinimum ==
    (norm_pc = "done" /\ Len(norm_in.series) >= 1 /\ AllEqualSeries) => AllAtMinimum

\* The same for series of at least two elements (the case the code handles).
C19_ConstantSeries_Len2 ==
    (norm_pc = "done" /\ Len(norm_in.series) >= 2 /\ AllEqualSeries) => AllAtMinimum

\* a constant series of two or more elements at the minimum is reached
C19_Len2Reached ==
    ~ /\ norm_pc = "done" /\ Len(norm_in.series) >= 2 /\ norm_in.lower_is_better
      /\ \A i, j \in 1 .. Len(norm_in.series) : norm_in.series[i] = norm_in.series[j]
      /\ AllAtMinimum

\* row i of the table of the call passes the enabled filters other than the
\* removal of unfinished races
PassesOtherFilters(i) ==
    LET t == ril_in.toggles
        flagged == _identify_sc_laps(ScColumns(ril_in.df))
    IN  /\ t.remove_sc_laps => ~flagged[i].is_safety_car_lap
        /\ t.remove_pit_laps => ril_in.df[i].is_pit_lap = 0
        /\ t.remove_first_lap => ril_in.df[i].lap_number > 1

\* C21: with remove_dnf_races enabled, remove_invalid_laps drops exactly the laps
\* of races the driver did not finish, finished being the classification of the
\* ReliabilityFeatureExtractor (race_status 0 or 1): a lap of a driver whom the
\* reliability extractor classifies as finished is never dropped by the toggle.
C21_FinishedLapsKept ==
    (ril_pc = "done" /\ ~ril_out.raised /\ ril_in.toggles.remove_dnf_races) =>
        \A i \in 1 .. Len(ril_in.df) :
            (PassesOtherFilters(i) /\ ~is_dnf(ril_in.df[i])) =>
                \E k \in 1 .. Len(ril_out.df) : ril_out.df[k] = ril_in.df[i]

\* What the toggle does: it keeps the laps of status 0 and drops every other lap.
C21_StatusZeroOnly ==
    (ril_pc = "done" /\ ~ril_out.raised /\ ril_in.toggles.remove_dnf_races) =>
        \A i \in 1 .. Len(ril_in.df) :
            PassesOtherFilters(i) =>
                ((ril_in.df[i].race_status = 0) <=>
                    \E k \in 1 .. Len(ril_out.df) : ril_out.df[k] = ril_in.df[i])

\* a lap of a lapped finisher is dropped by the toggle alone
C21_LappedFinisherDropped ==
    ~ /\ ril_pc = "done" /\ ~ril_out.raised
      /\ ril_in.toggles = [remove_pit_laps |-> FALSE, remove_first_lap |-> FALSE,
                           remove_sc_laps |-> FALSE, remove_dnf_races |-> TRUE]
      /\ Len(ril_in.df) = 1 /\ ril_in.df[1].race_status = 1
      /\ ril_out.df = <<>>

\* the rows of the results of the call of a driver in a year
EntriesOf(driver, year) ==
    {e \in 1 .. Len(fx_results) :
        fx_results[e].driver_id = driver /\ fx_results[e].year = year}

\* the number of entries of a driver-year whose status is in (out of) the codes
StatusCount(entries, codes, inside) ==
    Cardinality({e \in entries : (fx_results[e].race_status \in codes) = inside})

\* C22: ReliabilityFeatureExtractor.execute has, per (driver_id, year), dnf_rate =
\* (entries with status not in {0, 1}) / (entries), mechanical_dnf_rate = (entries
\* with status 11) / (entries), accident_dnf_rate = (entries with status 10) /
\* (entries), a non-numeric or missing status counting as a DNF of neither kind;
\* hence 0 <= mechanical_dnf_rate + accident_dnf_rate <= dnf_rate <= 1 in every
\* output row.
C22_ReliabilityRates ==
    (fx_pc = "done" /\ fx_class = "Reliability") =>
        /\ \A e \in 1 .. Len(fx_results) :
               \E k \in 1 .. Len(fx_out) : SameDriverYear(fx_out[k], fx_results[e])
        /\ \A k \in 1 .. Len(fx_out) :
               LET row == fx_out[k]
                   entries == EntriesOf(row.driver_id, row.year)
                   n == Cardinality(entries)
               IN  /\ n > 0
                   /\ row.dnf_rate = FRat(StatusCount(entries, {0, 1}, FALSE), n)
                   /\ row.mechanical_dnf_rate = FRat(StatusCount(entries, {11}, TRUE), n)
                   /\ row.accident_dnf_rate = FRat(StatusCount(entries, {10}, TRUE), n)
                   /\ FLe(FInt(0), FAdd(row.mechanical_dnf_rate, row.accident_dnf_rate), 0)
                   /\ FLe(FAdd(row.mechanical_dnf_rate, row.accident_dnf_rate),
                          row.dnf_rate, 0)
                   /\ FLe(row.dnf_rate, FInt(1), 0)

\* a season of a lapped finish and a retirement, and a season of one result whose
\* status is missing
C22_Witness ==
    /\ fx_pc = "done" /\ fx_class = "Reliability"
    /\ \E k \in 1 .. Len(fx_out) :
           /\ \E a, b \in EntriesOf(fx_out[k].driver_id, fx_out[k].year) :
                  fx_results[a].race_status = 1 /\ fx_results[b].race_status = 11
           /\ fx_out[k].dnf_rate = FRat(1, 2)
           /\ fx_out[k].mechanical_dnf_rate = FRat(1, 2)
           /\ fx_out[k].accident_dnf_rate = FInt(0)
    /\ \E k \in 1 .. Len(fx_out) :
           /\ \A e \in EntriesOf(fx_out[k].driver_id, fx_out[k].year) :
                  fx_results[e].race_status = NA
           /\ fx_out[k].dnf_rate = FInt(1)
           /\ fx_out[k].mechanical_dnf_rate = FInt(0)
           /\ fx_out[k].accident_dnf_rate = FInt(0)

\* the rows of the results of the call of a driver in the seasons up to a year
EntriesUpTo(driver, year) ==
    {e \in 1 .. Len(fx_results) :
        fx_results[e].driver_id = driver /\ fx_results[e].year <= year}

\* the career figures of an output row are those of the rows E of the results
CareerOver(row, E) ==
    /\ row.career_races = Cardinality(E)
    /\ row.career_wins = Cardinality({e \in E : fx_results[e].finishing_position = 1})
    /\ row.career_podiums =
           Cardinality({e \in E : /\ fx_results[e].finishing_position # NA
                                  /\ fx_results[e].finishing_position <= 3})
    /\ row.career_poles = Cardinality({e \in E : fx_results[e].starting_position = 1})

\* C23: ExperienceFeatureExtractor.execute gives, for each driver and season s,
\* career_races, career_wins, career_podiums and career_poles as the sums of the
\* driver's yearly counts over the seasons <= s of the input (so each grows with
\* the season and wins <= podiums <= races), and years_in_f1 as the 1-based rank
\* of s among the driver's seasons, whatever the row order of the input.
C23_CareerCumulative ==
    (fx_pc = "done" /\ fx_class = "Experience") =>
        /\ \A e \in 1 .. Len(fx_results) :
               \E k \in 1 .. Len(fx_out) : SameDriverYear(fx_out[k], fx_results[e])
        /\ \A k \in 1 .. Len(fx_out) :
               LET row == fx_out[k]
                   E == EntriesUpTo(row.driver_id, row.year)
               IN  /\ EntriesOf(row.driver_id, row.year) # {}
                   /\ CareerOver(row, E)
                   /\ row.years_in_f1 = Cardinality({fx_results[e].year : e \in E})
                   /\ row.career_wins <= row.career_podiums
                   /\ row.career_podiums <= row.career_races
        /\ \A k, j \in 1 .. Len(fx_out) :
               (fx_out[k].driver_id = fx_out[j].driver_id /\ fx_out[k].year < fx_out[j].year)
                   => /\ fx_out[k].career_races < fx_out[j].career_races
                      /\ fx_out[k].career_wins <= fx_out[j].career_wins
                      /\ fx_out[k].career_podiums <= fx_out[j].career_podiums
                      /\ fx_out[k].career_poles <= fx_out[j].career_poles
                      /\ fx_out[k].years_in_f1 < fx_out[j].years_in_f1

\* results given with the later season first: a win in 2024 above a third place
\* in 2023 of the same driver
C23_Witness ==
    /\ fx_pc = "done" /\ fx_class = "Experience"
    /\ Len(fx_results) = 2
    /\ fx_results[1].driver_id = fx_results[2].driver_id
    /\ fx_results[1].year = 2024 /\ fx_results[1].finishing_position = 1
    /\ fx_results[2].year = 2023 /\ fx_results[2].finishing_position = 3
    /\ Len(fx_out) = 2
    /\ fx_out[1].year = 2023 /\ fx_out[1].years_in_f1 = 1
    /\ fx_out[1].career_races = 1 /\ fx_out[1].career_wins = 0
    /\ fx_out[1].career_podiums = 1
    /\ fx_out[2].year = 2024 /\ fx_out[2].years_in_f1 = 2
    /\ fx_out[2].career_races = 2 /\ fx_out[2].career_wins = 1
    /\ fx_out[2].career_podiums = 2

\* the rows of the main race session among the rows E of the results
RaceEntries(E) == {e \in E : IsRace(fx_results[e])}

\* C24: ExperienceFeatureExtractor.execute counts only the rows of the main race
\* session (session_type 'R'): practice and qualifying rows of race_results never
\* add to career_races, career_wins, career_podiums or career_poles.
C24_RaceSessionOnly ==
    (fx_pc = "done" /\ fx_class = "Experience") =>
        \A k \in 1 .. Len(fx_out) :
            CareerOver(fx_out[k], RaceEntries(EntriesUpTo(fx_out[k].driver_id, fx_out[k].year)))

\* What the extractor does: it counts the rows of every session.
C24_EverySessionCounted ==
    (fx_pc = "done" /\ fx_class = "Experience") =>
        \A k \in 1 .. Len(fx_out) :
            CareerOver(fx_out[k], EntriesUpTo(fx_out[k].driver_id, fx_out[k].year))

\* the qualifying row alone gives its driver a race, a win, a podium and a pole
C24_QualifyingRowCounted ==
    ~ /\ fx_pc = "done" /\ fx_class = "Experience"
      /\ fx_results = <<QualifyingRow>>
      /\ Len(fx_out) = 1
      /\ fx_out[1].career_races = 1 /\ fx_out[1].career_wins = 1
      /\ fx_out[1].career_podiums = 1 /\ fx_out[1].career_poles = 1

\* the points of the race rows S of df_results
PointsOf(S) == SumNA(Col(RowsAt(perf_results, S), "points_scored"))

\* the race rows of a constructor in a year, and those of them of a driver
ConstructorRows(year, constructor) ==
    {i \in RaceRows : /\ perf_results[i].year = year
                      /\ perf_results[i].constructor_name = constructor}

DriverRows(year, constructor, driver) ==
    {i \in ConstructorRows(year, constructor) : perf_results[i].driver_id = driver}

\* driver points / constructor points, 0 when the constructor scored nothing
ShareOf(year, constructor, driver) ==
    IF PointsOf(ConstructorRows(year, constructor)) > 0
    THEN FRat(PointsOf(DriverRows(year, constructor, driver)),
              PointsOf(ConstructorRows(year, constructor)))
    ELSE FInt(0)

\* the rows of a table of a constructor in a year
OfConstructor(rows, year, constructor) ==
    LET Mine(r) == r.year = year /\ r.constructor_name = constructor
    IN  SelectSeq(rows, Mine)

\* the constructors for which a driver has race rows in a year
ConstructorsOf(year, driver) ==
    {perf_results[i].constructor_name :
        i \in {j \in RaceRows : /\ perf_results[j].year = year
                                /\ perf_results[j].driver_id = driver}}

\* C25: in the output of PerformanceFeatureExtractor.execute a driver's share of
\* the constructor's season points is driver points / constructor points when the
\* constructor scored more than 0 and exactly 0 (not missing) when it scored 0;
\* points not being negative, every team_points_share lies in [0, 1] and the
\* shares of all drivers of one constructor-season sum to 1 when the constructor
\* scored.
C25_TeamPointsShare ==
    (perf_pc = "done" /\ ~perf_none) =>
        /\ \A k \in 1 .. Len(perf_out) :
               LET row == perf_out[k]
               IN  /\ row.team_points_share =
                          ShareOf(row.year, row.constructor_name, row.driver_id)
                   /\ FLe(FInt(0), row.team_points_share, 0)
                   /\ FLe(row.team_points_share, FInt(1), 0)
        /\ \A i \in RaceRows :
               LET year == perf_results[i].year
                   constructor == perf_results[i].constructor_name
               IN  PointsOf(ConstructorRows(year, constructor)) > 0 =>
                       SumF(Col(OfConstructor(perf_out, year, constructor),
                                "team_points_share")) = FInt(1)

\* What the extractor does: the share of a driver for each constructor is as the
\* claim says, these shares sum to 1 over a constructor that scored, and the
\* output holds the mean of a driver's shares over the driver's constructors of
\* the year, which lies in [0, 1].
C25_MeanOfConstructorShares ==
    (perf_pc = "done" /\ ~perf_none /\ RaceRows # {}) =>
        LET merged == driver_yearly_merged(df_race(perf_results))
        IN  /\ \A m \in 1 .. Len(merged) :
                   merged[m].points_share_of_team =
                       ShareOf(merged[m].year, merged[m].constructor_name,
                               merged[m].driver_id)
            /\ \A m \in 1 .. Len(merged) :
                   merged[m].team_total_points > 0 =>
                       SumF(Col(OfConstructor(merged, merged[m].year,
                                              merged[m].constructor_name),
                                "points_share_of_team")) = FInt(1)
            /\ \A k \in 1 .. Len(perf_out) :
                   LET row == perf_out[k]
                       cs == InRowOrder(ConstructorsOf(row.year, row.driver_id))
                   IN  /\ row.team_points_share =
                              MeanF([c \in 1 .. Len(cs) |->
                                        ShareOf(row.year, cs[c], row.driver_id)], 0)
                       /\ FLe(FInt(0), row.team_points_share, 0)
                       /\ FLe(row.team_points_share, FInt(1), 0)

\* the claim holds for the seasons in which no driver changes constructor
C25_OneConstructorPerDriver ==
    (/\ perf_pc = "done" /\ ~perf_none
     /\ \A i \in RaceRows :
            Cardinality(ConstructorsOf(perf_results[i].year, perf_results[i].driver_id)) = 1
     /\ \A k \in 1 .. Len(perf_results) :
            \E i \in RaceRows : SameDriverYear(perf_results[i], perf_results[k]))
        => C25_TeamPointsShare

\* a constructor without points: each of its drivers has the share 0
C25_ZeroWhenNoPoints ==
    ~ /\ perf_pc = "done" /\ ~perf_none
      /\ \E k \in 1 .. Len(perf_out) :
             /\ PointsOf(ConstructorRows(perf_out[k].year, perf_out[k].constructor_name)) = 0
             /\ perf_out[k].team_points_share = FInt(0)

\* a driver who scored for two constructors of a year has half the sum of the
\* two shares
C25_MoverHasMean ==
    ~ /\ perf_pc = "done" /\ ~perf_none
      /\ \E k \in 1 .. Len(perf_out) :
             /\ Cardinality(ConstructorsOf(perf_out[k].year, perf_out[k].driver_id)) = 2
             /\ perf_out[k].team_points_share = FRat(1, 2)
             /\ ShareOf(perf_out[k].year, perf_out[k].constructor_name,
                        perf_out[k].driver_id) = FInt(0)

\* the race row of a driver in a race of a year
RaceRowOf(year, race, driver) ==
    CHOOSE i \in RaceRows : /\ perf_results[i].year = year
                            /\ perf_results[i].race_name = race
                            /\ perf_results[i].driver_id = driver

\* the other drivers of the driver's constructor in a race
TeammatesIn(year, race, driver) ==
    {perf_results[j].driver_id :
        j \in {i \in RaceTeamRows(RaceRowOf(year, race, driver)) :
                  perf_results[i].driver_id # driver}}

\* the races of a year in which a driver has a teammate
EventsWithTeammate(year, driver) ==
    {perf_results[i].race_name :
        i \in {j \in RaceRows : /\ perf_results[j].year = year
                                /\ perf_results[j].driver_id = driver
                                /\ RaceTeamRows(j) # {j}}}

\* the pairings of a driver: one teammate for each race with a teammate
Pairings(year, driver) ==
    {p \in [EventsWithTeammate(year, driver) -> {1, 2, 3}] :
        \A e \in EventsWithTeammate(year, driver) : p[e] \in TeammatesIn(year, e, driver)}

\* the number of races in which the driver is ahead of the paired teammate in a column
AheadCount(year, driver, pairing, col) ==
    Cardinality({e \in DOMAIN pairing :
        LessNA(perf_results[RaceRowOf(year, e, driver)][col],
               perf_results[RaceRowOf(year, e, pairing[e])][col])})

\* the win rates of an output row are those of a pairing, each race counted once
RatesOfPairing(row, pairing) ==
    LET n == Cardinality(DOMAIN pairing)
    IN  /\ row.race_vs_teammate_win_rate =
               FRat(AheadCount(row.year, row.driver_id, pairing, "finishing_position"), n)
        /\ row.qualy_vs_teammate_win_rate =
               FRat(AheadCount(row.year, row.driver_id, pairing, "starting_position"), n)

\* C26: race_vs_teammate_win_rate (qualy_vs_teammate_win_rate) of a driver-season
\* equals the number of events in which the driver finished (started) ahead of the
\* paired teammate divided by the number of events in which the driver had a
\* paired teammate, each event counted once, so the rate lies in [0, 1]; also when
\* a constructor entered three or more drivers in an event.
C26_WinRatePerEvent ==
    (perf_pc = "done" /\ ~perf_none) =>
        \A k \in 1 .. Len(perf_out) :
            LET row == perf_out[k]
            IN  EventsWithTeammate(row.year, row.driver_id) # {} =>
                    /\ \E pairing \in Pairings(row.year, row.driver_id) :
                           RatesOfPairing(row, pairing)
                    /\ FLe(FInt(0), row.race_vs_teammate_win_rate, 0)
                    /\ FLe(row.race_vs_teammate_win_rate, FInt(1), 0)
                    /\ FLe(FInt(0), row.qualy_vs_teammate_win_rate, 0)
                    /\ FLe(row.qualy_vs_teammate_win_rate, FInt(1), 0)

\* What the extractor does: the rates are over the pairs (race, teammate) of the
\* driver, a race with two teammates counting twice; they lie in [0, 1].
C26_WinRatePerPair ==
    (perf_pc = "done" /\ ~perf_none) =>
        \A k \in 1 .. Len(perf_out) :
            LET row == perf_out[k]
                pairs == {pr \in EventsWithTeammate(row.year, row.driver_id) \X {1, 2, 3} :
                             pr[2] \in TeammatesIn(row.year, pr[1], row.driver_id)}
                Ahead(col) ==
                    Cardinality({pr \in pairs :
                        LessNA(perf_results[RaceRowOf(row.year, pr[1], row.driver_id)][col],
                               perf_results[RaceRowOf(row.year, pr[1], pr[2])][col])})
            IN  IF pairs = {} THEN row.race_vs_teammate_win_rate = NaN
                                   /\ row.qualy_vs_teammate_win_rate = NaN
                ELSE /\ row.race_vs_teammate_win_rate =
                            FRat(Ahead("finishing_position"), Cardinality(pairs))
                     /\ row.qualy_vs_teammate_win_rate =
                            FRat(Ahead("starting_position"), Cardinality(pairs))
                     /\ FLe(FInt(0), row.race_vs_teammate_win_rate, 0)
                     /\ FLe(row.race_vs_teammate_win_rate, FInt(1), 0)

\* the claim holds when no constructor has more than two cars in a race
C26_TwoCarTeams ==
    (/\ perf_pc = "done" /\ ~perf_none
     /\ \A i \in RaceRows : Cardinality(RaceTeamRows(i)) <= 2) => C26_WinRatePerEvent

\* a driver with two teammates in one race, ahead of one of them: the rate is 1/2
C26_ThreeCarEvent ==
    ~ /\ perf_pc = "done" /\ ~perf_none
      /\ \E k \in 1 .. Len(perf_out) :
             /\ Cardinality(EventsWithTeammate(perf_out[k].year, perf_out[k].driver_id)) = 1
             /\ perf_out[k].race_vs_teammate_win_rate = FRat(1, 2)

\* two cars of a constructor in a race, the driver ahead on the grid and behind
\* at the finish
C26_TwoCarEventReached ==
    ~ /\ perf_pc = "done" /\ ~perf_none
      /\ \A i \in RaceRows : Cardinality(RaceTeamRows(i)) <= 2
      /\ \E k \in 1 .. Len(perf_out) :
             /\ Cardinality(EventsWithTeammate(perf_out[k].year, perf_out[k].driver_id)) = 1
             /\ perf_out[k].qualy_vs_teammate_win_rate = FInt(1)
             /\ perf_out[k].race_vs_teammate_win_rate = FInt(0)

(***************************************************************************)
(* get_final_quali_session (analysis/verstappen_analysis/utils.py, and the *)
(* same text in notebooks/utils.py).  df_quali_all has the rows [index,    *)
(* round_id, driver_id, session_type, position] with the default column    *)
(* names; the index labels are those of a frame read from the database, one *)
(* label per row.                                                          *)
(***************************************************************************)
\* priority_map: NaN for a session that is not a qualifying segment
priority_map(session) ==
    IF session = "Q1" THEN 1
    ELSE IF session = "Q2" THEN 2
    ELSE IF session = "Q3" THEN 3 ELSE NA

\* df_proc: the places of the rows with a segment_priority
df_proc(df) == {i \in 1 .. Len(df) : priority_map(df[i].session_type) # NA}

\* the first row of each group instead of the row of the highest segment
idx_first_row(df, key) ==
    SetMin({i \in df_proc(df) : df[i].round_id = key[1] /\ df[i].driver_id = key[2]})

\* groups['segment_priority'].idxmax() of one (round_id, driver_id) group: the
\* first row of the group that has the highest priority
idx_final_position(df, key) ==
    LET g == {i \in df_proc(df) : df[i].round_id = key[1] /\ df[i].driver_id = key[2]}
        Priority(i) == priority_map(df[i].session_type)
    IN  SetMin({i \in g : \A j \in g : Priority(j) <= Priority(i)})

\* df_final_results: the rows of idxmax in the order of the groups, without
\* segment_priority and with position renamed
get_final_quali_session(df) ==
    LET keys == SortKeys({<<df[i].round_id, df[i].driver_id>> : i \in df_proc(df)})
        Final(i) ==
            [index |-> df[i].index, round_id |-> df[i].round_id,
             driver_id |-> df[i].driver_id, session_type |-> df[i].session_type,
             final_quali_position |-> df[i].position]
    IN  [k \in 1 .. Len(keys) |-> Final(idx_final_position(df, keys[k]))]

\* the sessions of a row and the (round_id, driver_id, session_type) of a row
SessionTypes == {"Q1", "Q2", "Q3", "R"}

QualiChoices == {1, 2} \X {1, 2} \X SessionTypes

\* df_quali_all of the choices: row i has index i - 1 and position i
QualiTable(choices) ==
    [i \in 1 .. Len(choices) |->
        [index |-> i - 1, round_id |-> choices[i][1], driver_id |-> choices[i][2],
         session_type |-> choices[i][3], position |-> i]]

FqInit ==
    /\ fq_pc = "ready" /\ fq_out = <<>>
    /\ fq_in \in {QualiTable(c) : c \in SeqsUpTo(QualiChoices, MaxQualiRows)}
    /\ NormIdle /\ ScIdle /\ TmIdle /\ PerfIdle /\ PaceIdle /\ PnIdle /\ RilIdle
    /\ PipeIdle /\ FxIdle

GetFinalQualiSession ==
    /\ fq_pc = "ready"
    /\ fq_out' = get_final_quali_session(fq_in)
    /\ fq_pc' = "done"
    /\ UNCHANGED fq_in
    /\ UNCHANGED <<normVars, scVars, tmVars, perfVars, paceVars, pnVars, rilVars, pipeVars, fxVars>>

FqNext == GetFinalQualiSession

SpecQuali == FqInit /\ [][FqNext]_vars

\* the input rows of a round and driver that are of a qualifying segment
SegmentRows(round, driver) ==
    {i \in 1 .. Len(fq_in) : /\ fq_in[i].round_id = round /\ fq_in[i].driver_id = driver
                             /\ fq_in[i].session_type \in {"Q1", "Q2", "Q3"}}

\* segment a comes before segment b in the order Q1 < Q2 < Q3
SegmentBefore(a, b) ==
    \/ a = "Q1" /\ b \in {"Q2", "Q3"}
    \/ a = "Q2" /\ b = "Q3"

\* C27: get_final_quali_session returns exactly one row per (event, driver) that
\* has a Q1, Q2 or Q3 row, and that row is the driver's row of the highest
\* segment reached in the order Q1 < Q2 < Q3, whatever the order of the input;
\* rows of other session types are never returned.
C27_FinalSegmentRow ==
    fq_pc = "done" =>
        /\ \A i \in 1 .. Len(fq_in) :
               SegmentRows(fq_in[i].round_id, fq_in[i].driver_id) # {} =>
                   Cardinality({k \in 1 .. Len(fq_out) :
                                   /\ fq_out[k].round_id = fq_in[i].round_id
                                   /\ fq_out[k].driver_id = fq_in[i].driver_id}) = 1
        /\ \A k \in 1 .. Len(fq_out) :
               \E i \in SegmentRows(fq_out[k].round_id, fq_out[k].driver_id) :
                   /\ fq_out[k].index = fq_in[i].index
                   /\ fq_out[k].session_type = fq_in[i].session_type
                   /\ fq_out[k].final_quali_position = fq_in[i].position
                   /\ \A j \in SegmentRows(fq_out[k].round_id, fq_out[k].driver_id) :
                          ~SegmentBefore(fq_in[i].session_type, fq_in[j].session_type)

\* the Q3 row of a driver given above the driver's Q1 row and below a race row
C27_Witness ==
    /\ fq_pc = "done"
    /\ Len(fq_in) = 3
    /\ fq_in[1].session_type = "R" /\ fq_in[2].session_type = "Q3"
    /\ fq_in[3].session_type = "Q1"
    /\ \A i \in 1 .. 3 : fq_in[i].round_id = 1 /\ fq_in[i].driver_id = 1
    /\ Len(fq_out) = 1
    /\ fq_out[1].index = 1 /\ fq_out[1].final_quali_position = 2

\* the highest segment given last: a Q1 row above the Q2 row of the same driver
C27_HighestSegmentLast ==
    ~ /\ fq_pc = "done"
      /\ Len(fq_in) = 2
      /\ fq_in[1].session_type = "Q1" /\ fq_in[2].session_type = "Q2"
      /\ fq_in[1].round_id = fq_in[2].round_id /\ fq_in[1].driver_id = fq_in[2].driver_id
      /\ Len(fq_out) = 1 /\ fq_out[1].index = 1

\* the fastest-lap flag of element i of the call
FlagOf(i) == pn_call.fastest_laps.given /\ pn_call.fastest_laps.flags[i]

\* the result of apply_scoring_pandas is that of calculate_points at every element
AgreesWithCalculatePoints ==
    /\ Len(pn_out) = Len(pn_call.positions)
    /\ \A i \in 1 .. Len(pn_out) :
           pn_out[i] = calculate_points(pn_map, pn_call.positions[i], FlagOf(i))

\* C28: apply_scoring_pandas agrees element by element with calculate_points: for
\* every scoring table (custom tables that award points beyond 10th place
\* included), every integer or missing position and every fastest-lap flag the
\* vectorised result equals calculate_points(position, fastest_lap).
C28_VectorisedAgrees ==
    (pn_pc = "done" /\ pn_call.op = "apply_scoring_pandas") => AgreesWithCalculatePoints

\* The two agree when the table pays no place after the 10th, and without
\* fastest-lap flags.
C28_AgreesWithinTopTen ==
    (/\ pn_pc = "done" /\ pn_call.op = "apply_scoring_pandas"
     /\ \/ \A place \in DOMAIN pn_map : place > 10 => pn_map[place] = 0
        \/ \A i \in 1 .. Len(pn_call.positions) : ~FlagOf(i))
        => AgreesWithCalculatePoints

\* 11th place with the fastest lap under a table that pays 1 point for it: 2 points
C28_EleventhPlaceBonus ==
    ~ /\ pn_pc = "done" /\ pn_call.op = "apply_scoring_pandas"
      /\ Len(pn_map) > 10
      /\ pn_call.positions = <<[kind |-> "int", v |-> 11]>>
      /\ FlagOf(1)
      /\ pn_out = <<FInt(2)>>
      /\ calculate_points(pn_map, pn_call.positions[1], TRUE) = FInt(1)

\* the two agree on a winner with the fastest lap and a missing position
C28_AgreementReached ==
    ~ /\ pn_pc = "done" /\ pn_call.op = "apply_scoring_pandas"
      /\ pn_map = SCORING_MODERN_25
      /\ pn_call.positions = <<[kind |-> "int", v |-> 1], [kind |-> "nan", v |-> 0]>>
      /\ FlagOf(1) /\ FlagOf(2)
      /\ pn_out = <<FInt(26), FInt(0)>>
      /\ AgreesWithCalculatePoints

(***************************************************************************)
(* The lap before a caution lap (modules/features/utils.py, step 8).       *)
(***************************************************************************)
\* row i is flagged without being a caution lap by its own pace
FlaggedAsLapBefore(i) == sc_out[i].is_safety_car_lap /\ ~CautionByPace(i)

\* the next lap of row i's driver in the race is a caution lap by its pace
OwnNextLapIsCaution(i) == HasNextOfDriver(i) /\ CautionByPace(NextOfDriver(i))

\* C29: the 'lap before a caution lap' rule is per driver and one step deep: a lap
\* of driver D that is not itself a qualifying slow lap is flagged only if D's own
\* next lap in the same race is a qualifying slow lap, never because of another
\* driver's lap, whatever the row order of the input.
C29_LapBeforePerDriver ==
    sc_pc = "done" =>
        \A i \in 1 .. Len(sc_out) : FlaggedAsLapBefore(i) => OwnNextLapIsCaution(i)

\* The rule is one step deep on the rows of the race: a row flagged without being a
\* caution lap is followed in its race by a caution lap, and a row followed by a
\* row that is only a lap before a caution lap is not flagged for it.
C29_OneStepDeep ==
    sc_pc = "done" =>
        \A i \in 1 .. Len(sc_out) :
            /\ FlaggedAsLapBefore(i) => CautionByPace(NextInRace(i))
            /\ (/\ ~CautionByPace(i) /\ HasNextInRace(i)
                /\ FlaggedAsLapBefore(NextInRace(i))) => ~sc_out[i].is_safety_car_lap

\* every driver's rows of a race are adjacent and begin with the opening lap
DriverMajor ==
    \A i \in 1 .. Len(sc_laps) :
        /\ HasNextOfDriver(i) => NextOfDriver(i) = NextInRace(i)
        /\ (HasNextInRace(i) /\ ~HasNextOfDriver(i))
               => sc_laps[NextInRace(i)].lap_number = 1

\* With the rows driver by driver the rule is per driver.
C29_PerDriverWhenDriverMajor ==
    (sc_pc = "done" /\ DriverMajor) =>
        \A i \in 1 .. Len(sc_out) : FlaggedAsLapBefore(i) <=> (~CautionByPace(i) /\ OwnNextLapIsCaution(i))

\* rows lap by lap: lap 3 of driver 1 is flagged for the slow lap 3 of driver 2,
\* and lap 2 of driver 2 is not flagged
C29_OtherDriversLapFlagged ==
    ~ /\ sc_pc = "done" /\ sc_laps = ScenarioLapMajor
      /\ CautionByPace(6) /\ sc_out[6].is_safety_car_lap
      /\ sc_out[5].is_safety_car_lap /\ ~OwnNextLapIsCaution(5)
      /\ ~sc_out[4].is_safety_car_lap /\ OwnNextLapIsCaution(4)

\* rows driver by driver: laps 2 and 3 of driver 2 are flagged, no lap of driver 1
C29_OwnLapFlagged ==
    ~ /\ sc_pc = "done" /\ sc_laps = ScenarioDriverMajor
      /\ {i \in 1 .. 8 : sc_out[i].is_safety_car_lap} = {6, 7}

(***************************************************************************)
(* Head-to-head of two teammates (performance/extractor.py, lines 87-106). *)
(***************************************************************************)
\* the rows of race_merged of a driver in a year
PairRowsOf(year, driver) ==
    {k \in 1 .. Len(perf_merged) :
        perf_merged[k].year = year /\ perf_merged[k].driver_id = driver}

\* row m of race_merged is row k seen from the teammate
MirrorOf(k, m) ==
    /\ perf_merged[m].year = perf_merged[k].year
    /\ perf_merged[m].race_name = perf_merged[k].race_name
    /\ perf_merged[m].constructor_name = perf_merged[k].constructor_name
    /\ perf_merged[m].driver_id = perf_merged[k].teammate_id
    /\ perf_merged[m].teammate_id = perf_merged[k].driver_id

\* two drivers who have no other teammate than each other in the year
PairedOnlyWithEachOther(year, a, b) ==
    /\ a # b
    /\ PairRowsOf(year, a) # {}
    /\ \A k \in PairRowsOf(year, a) : perf_merged[k].teammate_id = b
    /\ \A k \in PairRowsOf(year, b) : perf_merged[k].teammate_id = a

\* C30: head-to-head is antisymmetric and a missing position is undecided: of two
\* teammates of an event at most one is counted as finished_ahead and at most one
\* as qualified_ahead; when either finishing position is missing neither is counted
\* ahead, yet the event counts in both drivers' win-rate denominators, so the race
\* win rates of two teammates of a season sum to at most 1.
C30_HeadToHeadAntisymmetric ==
    (perf_pc = "done" /\ ~perf_none) =>
        /\ \A k \in 1 .. Len(perf_merged) :
               /\ \E m \in 1 .. Len(perf_merged) : MirrorOf(k, m)
               /\ \A m \in 1 .. Len(perf_merged) :
                      MirrorOf(k, m) =>
                          /\ ~(perf_merged[k].finished_ahead /\ perf_merged[m].finished_ahead)
                          /\ ~(perf_merged[k].qualified_ahead /\ perf_merged[m].qualified_ahead)
               /\ (perf_merged[k].finishing_position = NA \/ perf_merged[k].teammate_finish = NA)
                      => ~perf_merged[k].finished_ahead
        /\ \A k \in 1 .. Len(perf_out) :
               LET rows == PairRowsOf(perf_out[k].year, perf_out[k].driver_id)
               IN  rows # {} =>
                       perf_out[k].race_vs_teammate_win_rate =
                           FRat(Cardinality({m \in rows : perf_merged[m].finished_ahead}),
                                Cardinality(rows))
        /\ \A k, m \in 1 .. Len(perf_out) :
               PairedOnlyWithEachOther(perf_out[k].year, perf_out[k].driver_id,
                                       perf_out[m].driver_id)
               /\ perf_out[m].year = perf_out[k].year
                   => FLe(FAdd(perf_out[k].race_vs_teammate_win_rate,
                               perf_out[m].race_vs_teammate_win_rate), FInt(1), 0)

\* two teammates of one event, one without a finishing position: neither finished
\* ahead, and both have the race win rate 0 over one event
C30_Witness ==
    /\ perf_pc = "done" /\ ~perf_none
    /\ \E k, m \in 1 .. Len(perf_merged) :
           /\ MirrorOf(k, m)
           /\ perf_merged[k].finishing_position = NA /\ perf_merged[m].finishing_position # NA
           /\ ~perf_merged[k].finished_ahead /\ ~perf_merged[m].finished_ahead
           /\ perf_merged[k].qualified_ahead /\ ~perf_merged[m].qualified_ahead
           /\ \E i, j \in 1 .. Len(perf_out) :
                  /\ perf_out[i].driver_id = perf_merged[k].driver_id
                  /\ perf_out[j].driver_id = perf_merged[m].driver_id
                  /\ PairedOnlyWithEachOther(perf_out[i].year, perf_out[i].driver_id,
                                             perf_out[j].driver_id)
                  /\ Cardinality(PairRowsOf(perf_out[i].year, perf_out[i].driver_id)) = 1
                  /\ perf_out[i].race_vs_teammate_win_rate = FInt(0)
                  /\ perf_out[j].race_vs_teammate_win_rate = FInt(0)
                  /\ perf_out[i].qualy_vs_teammate_win_rate = FInt(1)

\* the race win rates of two teammates sum to 1 when each event has a driver ahead
C30_RatesSumToOne ==
    ~ /\ perf_pc = "done" /\ ~perf_none
      /\ \E i, j \in 1 .. Len(perf_out) :
             /\ PairedOnlyWithEachOther(perf_out[i].year, perf_out[i].driver_id,
                                        perf_out[j].driver_id)
             /\ perf_out[i].race_vs_teammate_win_rate = FInt(1)
             /\ perf_out[j].race_vs_teammate_win_rate = FInt(0)

====
